---- MODULE Spec2Model ----
(***************************************************************************)
(* A model of the resilient structured-extraction pipeline of              *)
(* app/services/ai_parser.py (class AIQuestionParser): bounded-concurrency *)
(* dispatch of chunk tasks, response recovery (_extract_json and friends), *)
(* merge-step deduplication and cross-chunk answer reconciliation.         *)
(*                                                                         *)
(* Texts are sequences of one-character strings.  JSON values are tagged   *)
(* records [t |-> tag, v |-> payload]:                                     *)
(*   "str"  : v is the sequence of characters of the string                *)
(*   "num"  : v is the sequence of characters of the literal               *)
(*   "lit"  : v is the literal's characters (true, false, NaN, ...)        *)
(*   "null" : v is << >>                                                   *)
(*   "list" : v is the sequence of the items                               *)
(*   "obj"  : v is the sequence of members [k |-> key chars, val |-> value]*)
(***************************************************************************)
EXTENDS Integers, Sequences, FiniteSets, TLC

VARIABLES
  recExtra,   \* reconciler run: records collected into the pool beforehand
  recIn,      \* reconciler run: the merged list handed to reconciliation
  recPool,    \* reconciler run: the answer pool (self._answer_pool)
  recOut,     \* reconciler run: the list _match_answers_from_pool returned
  recPc,      \* reconciler run: "extra", "input", "match", "done"; "off" elsewhere
  rawText,    \* recovery run: the raw text of a service answer
  recovered,  \* recovery run: the list _extract_json returned
  recoveredAgain, \* recovery run: the list a second call on rawText returned
  recvPc,     \* recovery run: "raw", "done"; "off" elsewhere
  dupIn,      \* deduplication run: the records of the sorted results
  dupOut,     \* deduplication run: all_questions after the merge loop
  dupTwice,   \* deduplication run: the merge loop applied to dupOut
  dupPc,      \* deduplication run: "new", "once", "twice"; "off" elsewhere
  chunkText,  \* chunking run: the text handed to _smart_chunk
  chunkSize,  \* chunking run: self.max_chunk_size
  chunks,     \* chunking run: the list _smart_chunk returned
  chunkPc,    \* chunking run: "text", "done"; "off" elsewhere
  runs,       \* the calls on the parser object: document, position, output
  tasks,      \* the chunk tasks (or batch steps) of each call
  sem,        \* self._semaphore: free permits and waiting tasks
  answerPool, \* self._answer_pool
  poolBy,     \* for each key of answerPool, the call that wrote it (no program state)
  faults,     \* the service calls that failed so far
  faulty,     \* the tasks they belonged to
  limited,    \* the rate-limit errors the service can still answer with
  client      \* self._client is set: a credential was configured

recVars == <<recExtra, recIn, recPool, recOut, recPc>>

recvVars == <<rawText, recovered, recoveredAgain, recvPc>>

runVars == <<runs, tasks, sem, answerPool, poolBy, faults, faulty, limited, client>>

dupVars == <<dupIn, dupOut, dupTwice, dupPc>>

chunkVars == <<chunkText, chunkSize, chunks, chunkPc>>

vars == <<recVars, recvVars, dupVars, chunkVars, runVars>>

\* ------------------------------------------------------------------------
\* Characters and texts
\* ------------------------------------------------------------------------

Digits == {"0", "1", "2", "3", "4", "5", "6", "7", "8", "9"}

\* What str.strip() strips and the regex class \s matches.
Spaces == {" ", "\n", "\t", "\r", "\f"}

UpperLetters ==
  <<"A", "B", "C", "D", "E", "F", "G", "H", "I", "J", "K", "L", "M",
    "N", "O", "P", "Q", "R", "S", "T", "U", "V", "W", "X", "Y", "Z", "Â", "À">>

LowerLetters ==
  <<"a", "b", "c", "d", "e", "f", "g", "h", "i", "j", "k", "l", "m",
    "n", "o", "p", "q", "r", "s", "t", "u", "v", "w", "x", "y", "z", "â", "à">>

IsDigit(c) == c \in Digits

IsSpace(c) == c \in Spaces

\* str.lower() on one character.
LowerChar(c) ==
  IF \E i \in 1..Len(UpperLetters) : UpperLetters[i] = c
  THEN LowerLetters[CHOOSE i \in 1..Len(UpperLetters) : UpperLetters[i] = c]
  ELSE c

Lower(s) == [i \in 1..Len(s) |-> LowerChar(s[i])]

\* s[i:] with a 1-based first index.
From(s, i) == SubSeq(s, i, Len(s))

\* The first index j >= i of s with s[j] \notin cls (Len(s)+1 when none).
SkipClass(s, i, cls) ==
  CHOOSE j \in i..(Len(s) + 1) :
    /\ j = Len(s) + 1 \/ s[j] \notin cls
    /\ \A k \in i..(j - 1) : s[k] \in cls

SkipSpaces(s, i) == SkipClass(s, i, Spaces)

SkipDigits(s, i) == SkipClass(s, i, Digits)

\* The last index j <= i of s that holds no whitespace (0 when none).
LastNonSpace(s, i) ==
  CHOOSE j \in 0..i :
    /\ j = 0 \/ ~IsSpace(s[j])
    /\ \A k \in (j + 1)..i : IsSpace(s[k])

\* str.strip()
Strip(s) == SubSeq(s, SkipSpaces(s, 1), LastNonSpace(s, Len(s)))

\* Does the word w stand in s at index i (compared case-insensitively)?
HasWordAt(s, i, w) ==
  /\ i + Len(w) - 1 <= Len(s)
  /\ \A k \in 1..Len(w) : LowerChar(s[i + k - 1]) = w[k]

\* The characters of s at the indices i with keep[i], in order.
Pick(s, keep) ==
  LET Kept(i) == keep[i]
      idx == SelectSeq([i \in 1..Len(s) |-> i], Kept)
  IN  [n \in 1..Len(idx) |-> s[idx[n]]]

\* re.sub(r'\s+', ' ', s): every run of whitespace becomes one blank.
CollapseSpaces(s) ==
  Pick([i \in 1..Len(s) |-> IF IsSpace(s[i]) THEN " " ELSE s[i]],
       [i \in 1..Len(s) |-> ~(IsSpace(s[i]) /\ i > 1 /\ IsSpace(s[i - 1]))])

Min(a, b) == IF a <= b THEN a ELSE b

\* The element of a one-element set: The({e : x \in {v}}) is e with x bound
\* to the value v.
The(S) == CHOOSE x \in S : TRUE

\* ------------------------------------------------------------------------
\* JSON values (what json.loads returns) and dict access
\* ------------------------------------------------------------------------

JStr(s) == [t |-> "str", v |-> s]

JNull == [t |-> "null", v |-> << >>]

JList(items) == [t |-> "list", v |-> items]

JObj(members) == [t |-> "obj", v |-> members]

KeyQuestion == <<"q", "u", "e", "s", "t", "i", "o", "n">>

KeyAnswer == <<"a", "n", "s", "w", "e", "r">>

HasKey(o, key) == \E i \in 1..Len(o.v) : o.v[i].k = key

\* dict.get(key, default); an object holds each key once.
Get(o, key, default) ==
  IF HasKey(o, key)
  THEN o.v[CHOOSE i \in 1..Len(o.v) : o.v[i].k = key].val
  ELSE default

\* d[key] = val: overwrites in place, or appends a new key.
Put(o, key, val) ==
  IF HasKey(o, key)
  THEN JObj([i \in 1..Len(o.v) |->
              IF o.v[i].k = key THEN [k |-> key, val |-> val] ELSE o.v[i]])
  ELSE JObj(Append(o.v, [k |-> key, val |-> val]))

\* Python truthiness of a JSON value (bool(x)).
Truthy(x) ==
  CASE x.t = "str" -> x.v # << >>
    [] x.t = "null" -> FALSE
    [] x.t = "list" -> x.v # << >>
    [] x.t = "obj" -> x.v # << >>
    [] x.t = "num" -> \E i \in 1..Len(x.v) : x.v[i] \in Digits \ {"0"}
    [] x.t = "lit" -> x.v # <<"f", "a", "l", "s", "e">>

\* ------------------------------------------------------------------------
\* The answer pool and the reconciler's patterns
\* ------------------------------------------------------------------------

\* len(q_text) < 50 in _collect_answers and _match_answers_from_pool
ShortTextLimit == 50

\* [:150] in _hash_question
HashPrefixLen == 150

EmptyPool == << >>

\* self._answer_pool[key] = val
PoolPut(pool, key, val) ==
  [x \in (DOMAIN pool) \cup {key} |-> IF x = key THEN val ELSE pool[x]]

\* re.search(r'(?:Câu|Bài|Question)?\s*(\d+)', text, re.IGNORECASE): the
\* optional word and the whitespace can only lead up to the first digit of
\* the text, and \d+ is greedy, so group(1) is the first maximal digit run.
FirstDigit(s, i) ==
  LET j == SkipClass(s, i, {s[k] : k \in 1..Len(s)} \ Digits)
  IN  IF j > Len(s) THEN 0 ELSE j

QuestionNumber(text) ==
  LET d == FirstDigit(text, 1)
  IN  IF d = 0 THEN [found |-> FALSE, num |-> << >>]
      ELSE [found |-> TRUE, num |-> SubSeq(text, d, SkipDigits(text, d) - 1)]

WordCau == <<"c", "â", "u">>

WordBai == <<"b", "à", "i">>

\* The common head ^(?:Câu|Bài)?\s*(\d+)\s*[:.] of the two standalone-answer
\* patterns, matched at the start of t.  rest is the index after the
\* separator, 0 when the head does not match.
EntryHead(t) ==
  LET p0 == IF HasWordAt(t, 1, WordCau) \/ HasWordAt(t, 1, WordBai) THEN 4 ELSE 1
      d0 == SkipSpaces(t, p0)
      d1 == SkipDigits(t, d0)
      s0 == SkipSpaces(t, d1)
  IN  IF d1 > d0 /\ s0 <= Len(t) /\ t[s0] \in {":", "."}
      THEN [rest |-> s0 + 1, num |-> SubSeq(t, d0, d1 - 1)]
      ELSE [rest |-> 0, num |-> << >>]

\* re.match(r'^(?:Câu|Bài)?\s*(\d+)\s*[:.]\s*([A-D]|.{1,50})$', t, re.I) on
\* a stripped t: after the separator and its whitespace there is a non-empty
\* rest of at most 50 characters without a line break; group(2) is that rest.
AnswerEntry(t) ==
  LET h == EntryHead(t)
      r == IF h.rest = 0 THEN << >> ELSE From(t, SkipSpaces(t, h.rest))
  IN  IF /\ h.rest # 0
         /\ r # << >>
         /\ Len(r) <= 50
         /\ \A i \in 1..Len(r) : r[i] # "\n"
      THEN [ok |-> TRUE, num |-> h.num, val |-> r]
      ELSE [ok |-> FALSE, num |-> << >>, val |-> << >>]

\* re.match(r'^(?:Câu|Bài)?\s*\d+\s*[:.]\s*[A-D]?\s*$', t, re.I) on a
\* stripped t: after the separator there is nothing, or one letter A-D.
BareAnswerEntry(t) ==
  LET h == EntryHead(t)
      r == IF h.rest = 0 THEN << >> ELSE From(t, SkipSpaces(t, h.rest))
  IN  /\ h.rest # 0
      /\ \/ r = << >>
         \/ Len(r) = 1 /\ LowerChar(r[1]) \in {"a", "b", "c", "d"}

\* _hash_question
HashQuestion(text) ==
  IF text = << >> THEN << >>
  ELSE LET n == CollapseSpaces(Strip(Lower(text)))
       IN  SubSeq(n, 1, Min(Len(n), HashPrefixLen))

\* ------------------------------------------------------------------------
\* _collect_answers and _match_answers_from_pool
\* ------------------------------------------------------------------------

EmptyStr == JStr(<< >>)

\* q.get("question", "").strip() or q.get("answer", "").strip() raises
\* AttributeError: q is no dict, or the value is no string.
CollectRaisesOn(q) ==
  \/ q.t # "obj"
  \/ Get(q, KeyQuestion, EmptyStr).t # "str"
  \/ Get(q, KeyAnswer, EmptyStr).t # "str"

\* One iteration of the loop of _collect_answers on a well-typed record.
CollectOne(pool, q) ==
  LET q_text == Strip(Get(q, KeyQuestion, EmptyStr).v)
      answer == Strip(Get(q, KeyAnswer, EmptyStr).v)
      num_match == QuestionNumber(q_text)
      pool1 == IF num_match.found /\ answer # << >>
               THEN PoolPut(pool, num_match.num, answer)
               ELSE pool
      ans_match == AnswerEntry(q_text)
  IN  IF Len(q_text) < ShortTextLimit /\ ans_match.ok
      THEN PoolPut(pool1, ans_match.num, ans_match.val)
      ELSE pool1

\* _collect_answers(questions): the pool after the loop, and whether the
\* loop raised; the entries written before the raising record stay.
RECURSIVE CollectAnswers(_, _)
CollectAnswers(pool, questions) ==
  IF questions = << >> THEN [pool |-> pool, raised |-> FALSE]
  ELSE IF CollectRaisesOn(Head(questions)) THEN [pool |-> pool, raised |-> TRUE]
  ELSE CollectAnswers(CollectOne(pool, Head(questions)), Tail(questions))

\* An item is a record of a result list with the place it came from:
\* [rec |-> JSON value, src |-> <<chunk index, position in the chunk result>>].
\* src is not program state; the claims about order and provenance read it.
Tagged(c, questions) ==
  [i \in 1..Len(questions) |-> [rec |-> questions[i], src |-> <<c, i>>]]

\* q.get("answer"), re.search(..., q.get("question", "")) or .strip() raises.
MatchRaisesOn(q) ==
  \/ q.t # "obj"
  \/ Get(q, KeyQuestion, EmptyStr).t # "str"

\* The first loop without "if q.get("answer"): continue".
MatchOneOverwrites(pool, q) ==
  LET num_match == QuestionNumber(Get(q, KeyQuestion, EmptyStr).v)
  IN  IF num_match.found /\ num_match.num \in DOMAIN pool
      THEN Put(q, KeyAnswer, JStr(pool[num_match.num]))
      ELSE q

\* The first loop of _match_answers_from_pool on one record.
MatchOneSkipsShort(pool, q) ==
  LET num_match == QuestionNumber(Get(q, KeyQuestion, EmptyStr).v)
  IN  IF /\ ~Truthy(Get(q, KeyAnswer, JNull))
         /\ Len(Get(q, KeyQuestion, EmptyStr).v) >= ShortTextLimit
         /\ num_match.found
         /\ num_match.num \in DOMAIN pool
      THEN Put(q, KeyAnswer, JStr(pool[num_match.num]))
      ELSE q

MatchOne(pool, q) ==
  LET num_match == QuestionNumber(Get(q, KeyQuestion, EmptyStr).v)
  IN  IF /\ ~Truthy(Get(q, KeyAnswer, JNull))
         /\ num_match.found
         /\ num_match.num \in DOMAIN pool
      THEN Put(q, KeyAnswer, JStr(pool[num_match.num]))
      ELSE q

\* The test of the second loop: the record is dropped as a standalone answer.
IsDroppedEntry(q) ==
  LET q_text == Strip(Get(q, KeyQuestion, EmptyStr).v)
  IN  Len(q_text) < ShortTextLimit /\ BareAnswerEntry(q_text)

\* _match_answers_from_pool(questions) on items.
MatchAnswersFromPool(pool, items) ==
  LET filled == [i \in 1..Len(items) |->
                   [rec |-> MatchOne(pool, items[i].rec), src |-> items[i].src]]
      Kept(it) == ~IsDroppedEntry(it.rec)
  IN  IF \E i \in 1..Len(items) : MatchRaisesOn(items[i].rec)
      THEN [raised |-> TRUE, out |-> << >>]
      ELSE [raised |-> FALSE, out |-> SelectSeq(filled, Kept)]

\* ------------------------------------------------------------------------
\* json.loads: the strict parse of a text
\* ------------------------------------------------------------------------

\* the decoder's WHITESPACE, [ \t\n\r]*
JsonWs == {" ", "\t", "\n", "\r"}

\* the characters below 0x20 that the texts of the model can hold
ControlChars == {"\n", "\t", "\r", "\f"}

HexDigits == Digits \cup {"a", "b", "c", "d", "e", "f", "A", "B", "C", "D", "E", "F"}

SkipWs(s, i) == SkipClass(s, i, JsonWs)

Bad == [ok |-> FALSE, val |-> JNull, next |-> 0]

Good(val, next) == [ok |-> TRUE, val |-> val, next |-> next]

\* Does s hold exactly the characters w from index i on?
HasLiteralAt(s, i, w) ==
  /\ i + Len(w) - 1 <= Len(s)
  /\ SubSeq(s, i, i + Len(w) - 1) = w

\* The number of consecutive backslashes of s that end right before index j,
\* counted no further back than index lo.
BackslashRun(s, lo, j) ==
  LET k == CHOOSE k \in (lo - 1)..(j - 1) :
             /\ k = lo - 1 \/ s[k] # "\\"
             /\ \A m \in (k + 1)..(j - 1) : s[m] = "\\"
  IN  j - 1 - k

\* The index of the quote that closes the string opened at index i: the
\* first quote that no backslash escapes (0 when the string is not closed).
StringEnd(s, i) ==
  LET Closes(j) == s[j] = "\"" /\ BackslashRun(s, i + 1, j) % 2 = 0
  IN  IF \E j \in (i + 1)..Len(s) : Closes(j)
      THEN CHOOSE j \in (i + 1)..Len(s) :
             Closes(j) /\ \A m \in (i + 1)..(j - 1) : ~Closes(m)
      ELSE 0

\* The character an escape sequence \c stands for.
Unescape(c) ==
  CASE c = "n" -> "\n"
    [] c = "t" -> "\t"
    [] c = "r" -> "\r"
    [] c = "f" -> "\f"
    [] c = "b" -> "\\b"
    [] OTHER -> c

\* py_scanstring with strict=True, on the string opened at index i.
ParseString(s, i) ==
  LET EscStart(k) == s[k] = "\\" /\ BackslashRun(s, i + 1, k) % 2 = 0
      Decoded(k) ==
        IF k > i + 1 /\ EscStart(k - 1)
        THEN IF s[k] = "u"
             THEN "\\u" \o s[k + 1] \o s[k + 2] \o s[k + 3] \o s[k + 4]
             ELSE Unescape(s[k])
        ELSE s[k]
      Scan(e, esc) ==
        LET UniHex(k) == \E d \in 1..4 :
                           k - d - 1 >= i + 1 /\ esc[k - d - 1] /\ s[k - d] = "u"
            EscapeOk(k) ==
              \/ s[k + 1] \in {"\"", "\\", "/", "b", "f", "n", "r", "t"}
              \/ /\ s[k + 1] = "u"
                 /\ k + 5 <= e - 1
                 /\ \A d \in 2..5 : s[k + d] \in HexDigits
        IN  IF \E k \in (i + 1)..(e - 1) :
                 \/ s[k] \in ControlChars
                 \/ esc[k] /\ ~EscapeOk(k)
            THEN Bad
            ELSE Good(JStr(Pick([n \in 1..(e - 1 - i) |-> Decoded(i + n)],
                                [n \in 1..(e - 1 - i) |-> ~esc[i + n] /\ ~UniHex(i + n)])),
                      e + 1)
      Closed(e) == IF e = 0 THEN Bad ELSE Scan(e, [k \in (i + 1)..(e - 1) |-> EscStart(k)])
  IN  Closed(StringEnd(s, i))

\* NUMBER_RE: (-?(?:0|[1-9]\d*))(\.\d+)?([eE][-+]?\d+)? matched at index i;
\* the index after the match, 0 when there is none.
NumberEnd(s, i) ==
  LET Exp(fracEnd, signEnd) ==
        IF /\ fracEnd # 0 /\ fracEnd <= Len(s) /\ s[fracEnd] \in {"e", "E"}
           /\ SkipDigits(s, signEnd) > signEnd
        THEN SkipDigits(s, signEnd)
        ELSE fracEnd
      Sign(fracEnd) ==
        Exp(fracEnd,
            IF /\ fracEnd # 0 /\ fracEnd < Len(s) /\ s[fracEnd] \in {"e", "E"}
               /\ s[fracEnd + 1] \in {"+", "-"}
            THEN fracEnd + 2
            ELSE fracEnd + 1)
      Frac(intEnd) ==
        Sign(IF /\ intEnd # 0 /\ intEnd <= Len(s) /\ s[intEnd] = "."
                /\ SkipDigits(s, intEnd + 1) > intEnd + 1
             THEN SkipDigits(s, intEnd + 1)
             ELSE intEnd)
      IntPart(a) ==
        Frac(IF a > Len(s) \/ ~IsDigit(s[a]) THEN 0
             ELSE IF s[a] = "0" THEN a + 1 ELSE SkipDigits(s, a))
  IN  IntPart(IF s[i] = "-" THEN i + 1 ELSE i)

LitNull == <<"n", "u", "l", "l">>

LitTrue == <<"t", "r", "u", "e">>

LitFalse == <<"f", "a", "l", "s", "e">>

LitNaN == <<"N", "a", "N">>

LitInfinity == <<"I", "n", "f", "i", "n", "i", "t", "y">>

JLit(w) == [t |-> "lit", v |-> w]

\* The scanner's cases for a value that opens no string, object or array.
ParseAtom(s, i) ==
  LET Number(e) ==
        CASE e # 0 -> Good([t |-> "num", v |-> SubSeq(s, i, e - 1)], e)
          [] HasLiteralAt(s, i, LitNaN) -> Good(JLit(LitNaN), i + 3)
          [] HasLiteralAt(s, i, LitInfinity) -> Good(JLit(LitInfinity), i + 8)
          [] HasLiteralAt(s, i, <<"-">> \o LitInfinity) ->
               Good(JLit(<<"-">> \o LitInfinity), i + 9)
          [] OTHER -> Bad
  IN  CASE HasLiteralAt(s, i, LitNull) -> Good(JNull, i + 4)
        [] HasLiteralAt(s, i, LitTrue) -> Good(JLit(LitTrue), i + 4)
        [] HasLiteralAt(s, i, LitFalse) -> Good(JLit(LitFalse), i + 5)
        [] OTHER -> Number(NumberEnd(s, i))

RECURSIVE ParseValue(_, _)
RECURSIVE ParseItems(_, _, _)
RECURSIVE ParseMembers(_, _, _)

\* scan_once at index i
ParseValue(s, i) ==
  LET Object(j) == IF j <= Len(s) /\ s[j] = "}" THEN Good(JObj(<< >>), j + 1)
                   ELSE ParseMembers(s, j, JObj(<< >>))
      Array(j) == IF j <= Len(s) /\ s[j] = "]" THEN Good(JList(<< >>), j + 1)
                  ELSE ParseItems(s, j, << >>)
  IN  IF i > Len(s) THEN Bad
      ELSE CASE s[i] = "\"" -> ParseString(s, i)
             [] s[i] = "{" -> Object(SkipWs(s, i + 1))
             [] s[i] = "[" -> Array(SkipWs(s, i + 1))
             [] OTHER -> ParseAtom(s, i)

\* JSONArray: the items from index i on, after the items acc.
ParseItems(s, i, acc) ==
  LET Sep(j, items) ==
        IF j > Len(s) THEN Bad
        ELSE IF s[j] = "]" THEN Good(JList(items), j + 1)
        ELSE IF s[j] = "," THEN ParseItems(s, SkipWs(s, j + 1), items)
        ELSE Bad
      After(item) ==
        IF item.ok THEN Sep(SkipWs(s, item.next), Append(acc, item.val)) ELSE Bad
  IN  After(ParseValue(s, i))

\* JSONObject: the members from index i on, after the members of acc; a
\* repeated key keeps its place and takes the later value.
ParseMembers(s, i, acc) ==
  LET Sep(j, members) ==
        IF j > Len(s) THEN Bad
        ELSE IF s[j] = "}" THEN Good(members, j + 1)
        ELSE IF s[j] = "," THEN ParseMembers(s, SkipWs(s, j + 1), members)
        ELSE Bad
      AfterValue(key, val) ==
        IF val.ok THEN Sep(SkipWs(s, val.next), Put(acc, key.val.v, val.val)) ELSE Bad
      Colon(key, c) ==
        IF c <= Len(s) /\ s[c] = ":"
        THEN AfterValue(key, ParseValue(s, SkipWs(s, c + 1)))
        ELSE Bad
      AfterKey(key) == IF key.ok THEN Colon(key, SkipWs(s, key.next)) ELSE Bad
  IN  IF i <= Len(s) /\ s[i] = "\"" THEN AfterKey(ParseString(s, i)) ELSE Bad

\* json.loads(s): ok is FALSE where json.loads raises JSONDecodeError.
JsonLoads(s) ==
  The({IF r.ok /\ SkipWs(s, r.next) = Len(s) + 1
       THEN [ok |-> TRUE, val |-> r.val]
       ELSE [ok |-> FALSE, val |-> JNull] :
       r \in {ParseValue(s, SkipWs(s, 1))}})

\* ------------------------------------------------------------------------
\* The textual repairs of the recovery ladder
\* ------------------------------------------------------------------------

\* The number of consecutive characters c of s that end right before index
\* j, counted no further back than index lo.
RunBefore(s, lo, j, c) ==
  LET k == CHOOSE k \in (lo - 1)..(j - 1) :
             /\ k = lo - 1 \/ s[k] # c
             /\ \A m \in (k + 1)..(j - 1) : s[m] = c
  IN  j - 1 - k

\* The number of consecutive characters c of s from index j on.
RunFrom(s, j, c) == SkipClass(s, j, {c}) - j

\* The concatenation of the pieces w[1], ..., w[n], each of at most m
\* characters.
Expand(w, m) ==
  LET K(g) == ((g - 1) \div m) + 1
      P(g) == ((g - 1) % m) + 1
  IN  Pick([g \in 1..(Len(w) * m) |-> IF P(g) <= Len(w[K(g)]) THEN w[K(g)][P(g)] ELSE ""],
           [g \in 1..(Len(w) * m) |-> P(g) <= Len(w[K(g)])])

\* The same without the "+": every 3 backslashes in a row become 2.
FixBackslashTriples(s) ==
  Pick(s, [k \in 1..Len(s) |->
             ~(s[k] = "\\" /\ (RunBefore(s, 1, k, "\\") + 1) % 3 = 0)])

\* re.sub(r'\\\\\\+', r'\\\\', s): a run of 3 or more backslashes becomes 2.
FixBackslashes(s) ==
  Pick(s, [k \in 1..Len(s) |-> ~(s[k] = "\\" /\ RunBefore(s, 1, k, "\\") >= 2)])

\* re.sub(r',\s*X', 'X', s) for a closing character X: a comma, and the
\* whitespace after it, that stand right before X are dropped.
DropCommaBefore(s, closer) ==
  LET ClosesNext(k) ==
        SkipSpaces(s, k + 1) <= Len(s) /\ s[SkipSpaces(s, k + 1)] = closer
      AfterComma(k) ==
        LastNonSpace(s, k) >= 1 /\ s[LastNonSpace(s, k)] = ","
  IN  Pick(s, [k \in 1..Len(s) |->
                 ~(/\ s[k] = "," \/ (IsSpace(s[k]) /\ AfterComma(k))
                   /\ ClosesNext(k))])

\* re.sub(r',\s*]', ']', re.sub(r',\s*}', '}', s))
FixTrailingCommas(s) == DropCommaBefore(DropCommaBefore(s, "}"), "]")

\* s.replace(w, r) for words of one length that cannot overlap themselves.
ReplaceWord(s, w, r) ==
  [k \in 1..Len(s) |->
     IF \E i \in (k - Len(w) + 1)..k : i >= 1 /\ HasLiteralAt(s, i, w)
     THEN r[k + 1 - (CHOOSE i \in (k - Len(w) + 1)..k : i >= 1 /\ HasLiteralAt(s, i, w))]
     ELSE s[k]]

\* s.replace('None', 'null').replace('True', 'true').replace('False', 'false')
FixPythonLiterals(s) ==
  ReplaceWord(ReplaceWord(ReplaceWord(s, <<"N", "o", "n", "e">>, LitNull),
                          <<"T", "r", "u", "e">>, LitTrue),
              <<"F", "a", "l", "s", "e">>, LitFalse)

\* re.sub(r'[\x00-\x1f\x7f-\x9f]', '', s)
RemoveControlChars(s) == Pick(s, [k \in 1..Len(s) |-> s[k] \notin ControlChars])

\* re.sub(r'(?<!\\)\n', '\\n', s): the replacement template '\n' stands for
\* a line break, so every line break is replaced by a line break.
FixNewlines(s) ==
  [k \in 1..Len(s) |->
     IF s[k] = "\n" /\ (k = 1 \/ s[k - 1] # "\\") THEN "\n" ELSE s[k]]

\* The five fixes of fix_attempts, applied in their order.
ApplyAllFixes(s) ==
  FixNewlines(RemoveControlChars(FixPythonLiterals(FixTrailingCommas(FixBackslashes(s)))))

IsLetter(c) ==
  \E i \in 1..26 : UpperLetters[i] = c \/ LowerLetters[i] = c

\* re.sub(r'\\([a-zA-Z])', r'\\\\\\1', s): the template is three escaped
\* backslashes and the character 1, so a backslash with the letter after it
\* becomes three backslashes and "1".
EscapeLatex(s) ==
  LET Hit(k) == k >= 1 /\ k < Len(s) /\ s[k] = "\\" /\ IsLetter(s[k + 1])
  IN  Expand([k \in 1..Len(s) |->
                IF Hit(k) THEN <<"\\", "\\", "\\", "1">>
                ELSE IF Hit(k - 1) THEN << >>
                ELSE <<s[k]>>], 4)

\* re.sub(r'\\\\\\\\', r'\\\\', s): every 4 backslashes become 2.
HalveBackslashes(s) ==
  Pick(s, [k \in 1..Len(s) |->
             ~(/\ s[k] = "\\"
               /\ (RunBefore(s, 1, k, "\\") % 4) >= 2
               /\ RunBefore(s, 1, k, "\\") - (RunBefore(s, 1, k, "\\") % 4) + 4
                    <= RunBefore(s, 1, k, "\\") + RunFrom(s, k, "\\"))])

\* ------------------------------------------------------------------------
\* _extract_json, _aggressive_extract_json, _extract_individual_objects
\* ------------------------------------------------------------------------

\* s.find(w, i): the first index >= i where w stands in s, 0 when none.
FindFrom(s, w, i) ==
  IF \E k \in i..Len(s) : HasLiteralAt(s, k, w)
  THEN CHOOSE k \in i..Len(s) :
         HasLiteralAt(s, k, w) /\ \A m \in i..(k - 1) : ~HasLiteralAt(s, m, w)
  ELSE 0

\* s.rfind(c): the last index that holds c, 0 when none.
FindLast(s, c) ==
  IF \E k \in 1..Len(s) : s[k] = c
  THEN CHOOSE k \in 1..Len(s) : s[k] = c /\ \A m \in (k + 1)..Len(s) : s[m] # c
  ELSE 0

\* The quote-aware, escape-aware depth scan shared by the two extractors,
\* started at index start of s: the index of the first closer that brings
\* the count of openers back to 0, or 0 when the loop ends without a break.
\*   skip[i]   the character is passed over because escape_next is set
\*   inStr[i]  in_string when the character is reached
DepthScan(s, start, opener, closer) ==
  LET R == start..Len(s)
      First(ends) == IF ends = {} THEN 0 ELSE CHOOSE i \in ends : \A j \in ends : i <= j
      Ends(opens, closes) ==
        First({i \in closes :
                 Cardinality({j \in opens : j <= i}) = Cardinality({j \in closes : j <= i})})
      Marks(skip, inStr) ==
        Ends({i \in R : s[i] = opener /\ ~skip[i] /\ ~inStr[i]},
             {i \in R : s[i] = closer /\ ~skip[i] /\ ~inStr[i]})
      Quotes(skip) ==
        Marks(skip,
              [i \in R |->
                 Cardinality({j \in start..(i - 1) : s[j] = "\"" /\ ~skip[j]}) % 2 = 1])
  IN  Quotes([i \in R |-> RunBefore(s, start, i, "\\") % 2 = 1])

KeyType == <<"t", "y", "p", "e">>

KeyTopic == <<"t", "o", "p", "i", "c">>

KeyDifficulty == <<"d", "i", "f", "f", "i", "c", "u", "l", "t", "y">>

KeySteps == <<"s", "o", "l", "u", "t", "i", "o", "n", "_", "s", "t", "e", "p", "s">>

KeyGrade == <<"g", "r", "a", "d", "e">>

KeyChapter == <<"c", "h", "a", "p", "t", "e", "r">>

KeyLesson == <<"l", "e", "s", "s", "o", "n", "_", "t", "i", "t", "l", "e">>

\* obj.setdefault(key, val)
SetDefault(o, key, val) == IF HasKey(o, key) THEN o ELSE Put(o, key, val)

\* The eight setdefault calls of _extract_individual_objects.
WithDefaults(o) ==
  SetDefault(
    SetDefault(
      SetDefault(
        SetDefault(
          SetDefault(
            SetDefault(
              SetDefault(
                SetDefault(o, KeyType, JStr(<<"T", "L">>)),
                KeyTopic, JStr(<<"T", "o", "á", "n", " ", "h", "ọ", "c">>)),
              KeyDifficulty, JStr(<<"T", "H">>)),
            KeySteps, JList(<< >>)),
          KeyAnswer, EmptyStr),
        KeyGrade, JNull),
      KeyChapter, EmptyStr),
    KeyLesson, EmptyStr)

QuotedQuestion == <<"\"">> \o KeyQuestion \o <<"\"">>

\* if isinstance(obj, dict) and "question" in obj: the setdefault calls and
\* objects.append(obj) -- what a parsed candidate r adds to objects.
AcceptObject(r) ==
  IF r.ok /\ r.val.t = "obj" /\ HasKey(r.val, KeyQuestion)
  THEN <<WithDefaults(r.val)>>
  ELSE << >>

\* The body of the loop of _extract_individual_objects for the candidate
\* that spans sub: the objects it appends (one or none).
SalvageObject(sub) ==
  The({IF obj_end = 0 THEN << >>
       ELSE The({The({IF first.ok THEN AcceptObject(first)
                      ELSE AcceptObject(JsonLoads(HalveBackslashes(EscapeLatex(obj_str)))) :
                      first \in {JsonLoads(obj_str)}}) :
                 obj_str \in {FixBackslashes(RemoveControlChars(
                                DropCommaBefore(SubSeq(sub, 1, obj_end), "}")))}}) :
       obj_end \in {DepthScan(sub, 1, "{", "}")}})

\* _extract_individual_objects(json_str)
ExtractIndividualObjects(json_str) ==
  The({The({The({Pick([n \in 1..Len(found) |->
                         IF found[n] = << >> THEN JNull ELSE found[n][1]],
                      [n \in 1..Len(found) |-> found[n] # << >>]) :
                 found \in {[n \in 1..Len(obj_starts) |->
                               SalvageObject(SubSeq(js, obj_starts[n],
                                                    IF n < Len(obj_starts)
                                                    THEN obj_starts[n + 1] - 1
                                                    ELSE Len(js)))]}}) :
            obj_starts \in {Pick([k \in 1..Len(js) |-> k],
                                 [k \in 1..Len(js) |->
                                    /\ js[k] = "{"
                                    /\ HasLiteralAt(js, SkipSpaces(js, k + 1),
                                                    QuotedQuestion)])}}) :
       js \in {FixBackslashes(json_str)}})

\* _aggressive_extract_json(content)
AggressiveExtractJson(content) ==
  IF content = << >> THEN << >>
  ELSE
    The({IF start_idx = 0 THEN << >>
         ELSE
           The({IF end_idx = 0 THEN << >>
                ELSE
                  The({The({IF parsed.ok /\ parsed.val.t = "list" THEN parsed.val.v
                            ELSE ExtractIndividualObjects(current) :
                            parsed \in {JsonLoads(current)}}) :
                       current \in {ApplyAllFixes(SubSeq(content, start_idx, end_idx))}}) :
                end_idx \in
                  {The({IF matched # 0 THEN matched
                        ELSE IF last_bracket > start_idx THEN last_bracket
                        ELSE 0 :
                        matched \in {DepthScan(content, start_idx, "[", "]")},
                        last_bracket \in {FindLast(content, "]")}})}}) :
         start_idx \in {FindFrom(content, <<"[">>, 1)}})

\* The grave accent, which a TLA+ string cannot hold: this atom stands for it.
Grave == "grave"

Fence == <<Grave, Grave, Grave>>

FenceJson == Fence \o <<"j", "s", "o", "n">>

\* content.split(FenceJson)[1].split(Fence)[0].strip(), with the triple
\* backslashes fixed, parsed: the list, or not ok.
NoList == [ok |-> FALSE, val |-> << >>]

FencedJsonBlock(content) ==
  The({IF f = 0 THEN NoList
       ELSE
         The({The({IF r.ok /\ r.val.t = "list" THEN [ok |-> TRUE, val |-> r.val.v]
                   ELSE NoList :
                   r \in {JsonLoads(FixBackslashes(Strip(
                            SubSeq(content, f + Len(FenceJson),
                                   IF b = 0 THEN Len(content) ELSE b - 1))))}}) :
              b \in {FindFrom(content, Fence, f + Len(FenceJson))}}) :
       f \in {FindFrom(content, FenceJson, 1)}})

\* The loop over content.split(Fence): the first part that starts with "["
\* and parses to a list, or not ok.
FencedPart(content) ==
  The({The({The({IF fences # << >> /\ hits # {}
                 THEN [ok |-> TRUE,
                       val |-> parsed[CHOOSE n \in hits : \A m \in hits : n <= m].val.v]
                 ELSE NoList :
                 hits \in {{n \in 0..Len(fences) :
                              parsed[n].ok /\ parsed[n].val.t = "list"}}}) :
            parsed \in
              {[n \in 0..Len(fences) |->
                  The({IF part # << >> /\ part[1] = "["
                       THEN JsonLoads(FixBackslashes(part))
                       ELSE [ok |-> FALSE, val |-> JNull] :
                       part \in {Strip(SubSeq(content,
                                              IF n = 0 THEN 1 ELSE fences[n] + 3,
                                              IF n = Len(fences) THEN Len(content)
                                              ELSE fences[n + 1] - 1))}})]}}) :
       fences \in {Pick([k \in 1..Len(content) |-> k],
                        [k \in 1..Len(content) |->
                           /\ HasLiteralAt(content, k, Fence)
                           /\ RunBefore(content, 1, k, Grave) % 3 = 0])}})

\* A recovery that looks at the parser object: nothing is extracted once
\* the answer pool holds an entry.
ExtractJsonReadsPool(raw) ==
  IF answerPool # << >> THEN << >> ELSE AggressiveExtractJson(raw)

\* _extract_json(content): the recovery ladder.
ExtractJson(raw) ==
  IF raw = << >> THEN << >>
  ELSE
    The({The({IF direct.ok /\ direct.val.t = "list" THEN direct.val.v
              ELSE
                The({IF block.ok THEN block.val
                     ELSE The({IF part.ok THEN part.val
                               ELSE AggressiveExtractJson(content) :
                               part \in {FencedPart(content)}}) :
                     block \in {FencedJsonBlock(content)}}) :
              direct \in {JsonLoads(content)}}) :
         content \in {FixBackslashes(Strip(raw))}})

\* ------------------------------------------------------------------------
\* Records the specifications draw their inputs from
\* ------------------------------------------------------------------------

Member(key, val) == [k |-> key, val |-> val]

\* {"question": q, "answer": a}
QA(q, a) == JObj(<<Member(KeyQuestion, JStr(q)), Member(KeyAnswer, JStr(a))>>)

\* "Câu 2: xxx...x", 52 characters: a question too long to be an answer entry
QLong2 == <<"C", "â", "u", " ", "2", ":", " ">> \o [i \in 1..45 |-> "x"]

\* "2: B", an answer-key line with a letter
QKeyLetter == <<"2", ":", " ", "B">>

\* "2: 15", an answer-key line with another short value
QKeyValue == <<"2", ":", " ", "1", "5">>

\* "Câu 3 x", a short question without a separator
QShort3 == <<"C", "â", "u", " ", "3", " ", "x">>

\* "x?", no number at all
QNoNumber == <<"x", "?">>

\* "x+2", a number that is not at the start
QLateNumber == <<"x", "+", "2">>

\* "3.", a number and a separator only
QBare3 == <<"3", ".">>

RecQuestions ==
  {QLong2, QKeyLetter, QKeyValue, QShort3, QNoNumber, QLateNumber, QBare3}

RecAnswers == {<< >>, <<"A">>}

RecCatalogue == {QA(q, a) : q \in RecQuestions, a \in RecAnswers}

\* the longest list handed to one reconciler run
MaxRecs == 2

ListsUpTo(S, n) == UNION {[1..k -> S] : k \in 0..n}

\* ------------------------------------------------------------------------
\* SpecReconcile: _collect_answers over the records of a run, then
\* _match_answers_from_pool over the merged list
\* ------------------------------------------------------------------------

RecInit ==
  /\ recExtra \in ListsUpTo(RecCatalogue, 1)
  /\ recIn \in ListsUpTo(RecCatalogue, MaxRecs)
  /\ recPool = EmptyPool
  /\ recOut = << >>
  /\ recPc = "extra"
  /\ rawText = << >> /\ recovered = << >> /\ recoveredAgain = << >> /\ recvPc = "off"
  /\ dupIn = << >> /\ dupOut = << >> /\ dupTwice = << >> /\ dupPc = "off"
  /\ chunkText = << >> /\ chunkSize = 0 /\ chunks = << >> /\ chunkPc = "off"
  /\ runs = [c \in {1, 2} |->
               [kind |-> "off", long |-> FALSE, parts |-> 0, pc |-> "off", batch |-> 0,
                pages |-> 0, progress |-> << >>,
                all |-> << >>, out |-> << >>, lent |-> {}]]
  /\ tasks = << >>
  /\ sem = [free |-> 0, waiters |-> << >>]
  /\ answerPool = << >>
  /\ poolBy = << >>
  /\ faults = 0
  /\ faulty = {}
  /\ limited = 0
  /\ client = TRUE

\* _collect_answers on records that do not reach the merged list (dropped
\* by the deduplication, or of another chunk).
RecCollectExtra ==
  /\ recPc = "extra"
  /\ recPool' = CollectAnswers(recPool, recExtra).pool
  /\ recPc' = "input"
  /\ UNCHANGED <<recExtra, recIn, recOut, recvVars, dupVars, chunkVars, runVars>>

\* _collect_answers on the records of the merged list.
RecCollectInput ==
  /\ recPc = "input"
  /\ recPool' = CollectAnswers(recPool, recIn).pool
  /\ recPc' = "match"
  /\ UNCHANGED <<recExtra, recIn, recOut, recvVars, dupVars, chunkVars, runVars>>

\* _match_answers_from_pool(recIn)
RecMatch ==
  /\ recPc = "match"
  /\ recOut' = MatchAnswersFromPool(recPool, Tagged(1, recIn)).out
  /\ recPc' = "done"
  /\ UNCHANGED <<recExtra, recIn, recPool, recvVars, dupVars, chunkVars, runVars>>

RecNext == RecCollectExtra \/ RecCollectInput \/ RecMatch

\* The record of the merged list an output item came from.
RecSource(item) == recIn[item.src[2]]

\* The record had no answer and its question number has a pool entry.
NeedsBackfill(q, pool) ==
  /\ ~Truthy(Get(q, KeyAnswer, JNull))
  /\ QuestionNumber(Get(q, KeyQuestion, EmptyStr).v).found
  /\ QuestionNumber(Get(q, KeyQuestion, EmptyStr).v).num \in DOMAIN pool

\* C9: after reconciliation, every returned record that had an empty answer
\* and whose question number n has a pool entry (collected from an answered
\* record or from a standalone "n: value" entry of the run) has its answer
\* equal to the pool value for n.
C9_BackfilledFromPool ==
  recPc = "done" =>
    \A o \in 1..Len(recOut) :
      NeedsBackfill(RecSource(recOut[o]), recPool) =>
        Get(recOut[o].rec, KeyAnswer, JNull) =
          JStr(recPool[QuestionNumber(Get(RecSource(recOut[o]), KeyQuestion, EmptyStr).v).num])

\* A long question without an answer got the value that an answer-key line
\* elsewhere in the run put into the pool.
C9_Witness ==
  /\ recPc = "done"
  /\ \E o \in 1..Len(recOut) :
       /\ RecSource(recOut[o]) = QA(QLong2, << >>)
       /\ recExtra = <<QA(QKeyLetter, << >>)>>
       /\ Get(recOut[o].rec, KeyAnswer, JNull) = JStr(<<"B">>)

\* The collection pass stored the record as a standalone answer entry.
CollectedAsEntry(q) ==
  /\ Len(Strip(Get(q, KeyQuestion, EmptyStr).v)) < ShortTextLimit
  /\ AnswerEntry(Strip(Get(q, KeyQuestion, EmptyStr).v)).ok

\* C10: every record that the collection pass treated as a standalone
\* answer entry ("<number>: <short-answer>", under 50 characters, whatever
\* the value) is absent from the reconciled output.
C10_EntriesRemoved ==
  recPc = "done" =>
    \A i \in 1..Len(recIn) :
      CollectedAsEntry(recIn[i]) =>
        ~\E o \in 1..Len(recOut) : recOut[o].src = <<1, i>>

\* The text begins with a question-number token: digits, after an
\* optional word and white space.
BeginsWithNumber(t) ==
  \E w \in {<< >>, WordCau, WordBai, <<"q", "u", "e", "s", "t", "i", "o", "n">>} :
    /\ HasWordAt(t, 1, w)
    /\ SkipSpaces(t, Len(w) + 1) <= Len(t)
    /\ IsDigit(t[SkipSpaces(t, Len(w) + 1)])

\* C26: the reconciler keys a record by the question number at the start
\* of its question text: a record whose text does not begin with a
\* question-number token adds nothing to the answer pool and is never
\* backfilled, even when a number appears later in its text.
C26_KeyedByLeadingNumber ==
  recPc = "done" =>
    \A i \in 1..Len(recIn) :
      ~BeginsWithNumber(Strip(Get(recIn[i], KeyQuestion, EmptyStr).v)) =>
        /\ CollectOne(EmptyPool, recIn[i]) = EmptyPool
        /\ \A o \in 1..Len(recOut) : recOut[o].src = <<1, i>> => recOut[o].rec = recIn[i]

\* The members of a record other than its answer.
OtherFields(q) == Pick(q.v, [k \in 1..Len(q.v) |-> q.v[k].k # KeyAnswer])

\* C30: _match_answers_from_pool never changes a record whose answer is
\* already non-empty, changes only the answer field of the records it
\* backfills, and keeps the surviving records in their input order.
C30_OnlyAnswersBackfilled ==
  recPc = "done" =>
    /\ \A o \in 1..Len(recOut) :
         /\ Truthy(Get(RecSource(recOut[o]), KeyAnswer, JNull))
              => recOut[o].rec = RecSource(recOut[o])
         /\ OtherFields(recOut[o].rec) = OtherFields(RecSource(recOut[o]))
    /\ \A o \in 1..(Len(recOut) - 1) : recOut[o].src[2] < recOut[o + 1].src[2]

\* An answered record whose number had another value in the pool came
\* back as it was, after a record that was backfilled.
C30_Witness ==
  /\ recPc = "done"
  /\ Len(recOut) = 2
  /\ recOut[1].rec # recIn[1]
  /\ recOut[2].rec = recIn[2]
  /\ Truthy(Get(recIn[2], KeyAnswer, JNull))
  /\ NeedsBackfill([recIn[2] EXCEPT !.v[2].val = EmptyStr], recPool)
  /\ Get(recIn[2], KeyAnswer, JNull) # JStr(recPool[QuestionNumber(Get(recIn[2], KeyQuestion, EmptyStr).v).num])

\* ------------------------------------------------------------------------
\* SpecRecover: _extract_json applied to one raw text
\* ------------------------------------------------------------------------

Quoted(w) == <<"\"">> \o w \o <<"\"">>

\* "key":"value"
Field(key, w) == Quoted(key) \o <<":">> \o Quoted(w)

\* "solution_steps":[...]
StepsField(items) == Quoted(KeySteps) \o <<":", "[">> \o items \o <<"]">>

\* {"question":"1","answer":"A"}
ObjPlain1 ==
  <<"{">> \o Field(KeyQuestion, <<"1">>) \o <<",">> \o Field(KeyAnswer, <<"A">>) \o <<"}">>

\* {"question":"1","solution_steps":[],"answer":"A"}
ObjStepsFirst1 ==
  <<"{">> \o Field(KeyQuestion, <<"1">>) \o <<",">> \o StepsField(<< >>) \o <<",">>
    \o Field(KeyAnswer, <<"A">>) \o <<"}">>

\* {"question":"2","answer":"B"}
ObjPlain2 ==
  <<"{">> \o Field(KeyQuestion, <<"2">>) \o <<",">> \o Field(KeyAnswer, <<"B">>) \o <<"}">>

\* {"question":"2","solution_steps":["a"],"answer":"B"}
ObjSteps2 ==
  <<"{">> \o Field(KeyQuestion, <<"2">>) \o <<",">> \o StepsField(Quoted(<<"a">>)) \o <<",">>
    \o Field(KeyAnswer, <<"B">>) \o <<"}">>

\* The arrays of two objects whose prefixes are the raw texts.
ArrayPairs ==
  {[first |-> ObjPlain1, second |-> ObjPlain2],
   [first |-> ObjStepsFirst1, second |-> ObjPlain2],
   [first |-> ObjPlain1, second |-> ObjSteps2]}

ArrayText(p) == <<"[">> \o p.first \o <<",">> \o p.second \o <<"]">>

\* The answers the output-length ceiling cuts off: every prefix of an array.
Prefixes(text) == {SubSeq(text, 1, n) : n \in 0..Len(text)}

RawTexts == UNION {Prefixes(ArrayText(p)) : p \in ArrayPairs}

RecoverInit ==
  /\ rawText \in RawTexts
  /\ recovered = << >>
  /\ recoveredAgain = << >>
  /\ recvPc = "raw"
  /\ dupIn = << >> /\ dupOut = << >> /\ dupTwice = << >> /\ dupPc = "off"
  /\ chunkText = << >> /\ chunkSize = 0 /\ chunks = << >> /\ chunkPc = "off"
  /\ recExtra = << >> /\ recIn = << >> /\ recPool = EmptyPool
  /\ recOut = << >> /\ recPc = "off"
  /\ runs = [c \in {1, 2} |->
               [kind |-> "off", long |-> FALSE, parts |-> 0, pc |-> "off", batch |-> 0,
                pages |-> 0, progress |-> << >>,
                all |-> << >>, out |-> << >>, lent |-> {}]]
  /\ tasks = << >>
  /\ sem = [free |-> 0, waiters |-> << >>]
  /\ answerPool = << >>
  /\ poolBy = << >>
  /\ faults = 0
  /\ faulty = {}
  /\ limited = 0
  /\ client = TRUE

\* result = self._extract_json(content)
Recover ==
  /\ recvPc = "raw"
  /\ recovered' = ExtractJson(rawText)
  /\ recvPc' = "done"
  /\ UNCHANGED <<rawText, recoveredAgain, recVars, dupVars, chunkVars, runVars>>

RecoverNext == Recover

\* ------------------------------------------------------------------------
\* SpecRepair: _extract_json on answers that hold runs of backslashes
\* ------------------------------------------------------------------------

\* the longest run of backslashes in an answer
MaxBackslashes == 5

\* the letters after the run: \sqrt, \frac, \times, \delta
RepairLetters == {"s", "f", "t", "d"}

\* the letters that json.loads accepts after a backslash (\u needs 4 hex
\* digits after it)
JsonEscapeLetters == {"b", "f", "n", "r", "t"}

Backslashes(n) == [k \in 1..n |-> "\\"]

\* [{"question":"x<n backslashes><letter>y"}]
RepairArray(n, letter) ==
  <<"[", "{">> \o Field(KeyQuestion, <<"x">> \o Backslashes(n) \o <<letter, "y">>)
    \o <<"}", "]">>

\* What surrounds the array in an answer: nothing, whitespace, a fence
\* with and without the language tag, a sentence before it.
Wrappings ==
  {[name |-> "bare", pre |-> << >>, post |-> << >>],
   [name |-> "padded", pre |-> <<" ">>, post |-> <<"\n">>],
   [name |-> "json fence", pre |-> FenceJson \o <<"\n">>, post |-> <<"\n">> \o Fence],
   [name |-> "fence", pre |-> Fence \o <<"\n">>, post |-> <<"\n">> \o Fence],
   [name |-> "prose", pre |-> <<"a", ":", " ">>, post |-> << >>]}

RepairText(w, n, letter) == w.pre \o RepairArray(n, letter) \o w.post

RepairTexts ==
  {RepairText(w, n, letter) : w \in Wrappings, n \in 1..MaxBackslashes, letter \in RepairLetters}

RepairInit ==
  /\ rawText \in RepairTexts
  /\ recovered = << >>
  /\ recoveredAgain = << >>
  /\ recvPc = "raw"
  /\ dupIn = << >> /\ dupOut = << >> /\ dupTwice = << >> /\ dupPc = "off"
  /\ chunkText = << >> /\ chunkSize = 0 /\ chunks = << >> /\ chunkPc = "off"
  /\ recExtra = << >> /\ recIn = << >> /\ recPool = EmptyPool
  /\ recOut = << >> /\ recPc = "off"
  /\ runs = [c \in {1, 2} |->
               [kind |-> "off", long |-> FALSE, parts |-> 0, pc |-> "off", batch |-> 0,
                pages |-> 0, progress |-> << >>,
                all |-> << >>, out |-> << >>, lent |-> {}]]
  /\ tasks = << >>
  /\ sem = [free |-> 0, waiters |-> << >>]
  /\ answerPool = << >>
  /\ poolBy = << >>
  /\ faults = 0
  /\ faulty = {}
  /\ limited = 0
  /\ client = TRUE

RepairNext == Recover

\* ------------------------------------------------------------------------
\* The parser object: its runs, their chunk tasks, the semaphore, the pool
\* ------------------------------------------------------------------------

\* The calls that can run on one parser object at a time.
Calls == {1, 2}

\* max_concurrency, the size of self._semaphore
MaxConcurrency == 2

\* the most chunks _smart_chunk cuts a document into
MaxChunks == 3

\* the most batches of page images of one parse_images call
MaxBatches == 2

\* the most service calls of a run that end in an error or in a text that
\* holds no record
MaxFaults == 9

\* the most service calls of a run that end in a rate-limit error
MaxRateLimits == 1

\* the same for a run of one chunk task: enough to use up a tier
MaxLadderRateLimits == 3

\* the most tasks of a run whose service calls fail
MaxFaultyTasks == 1

\* prompts = [PARSE_PROMPT_V1, PARSE_PROMPT_V2, PARSE_PROMPT_V3]
NumPrompts == 3

\* schema mode, JSON mode, plain text
NumTiers == 3

\* for attempt in range(3)
RetryAttempts == 3

MaxParts == IF MaxChunks > MaxBatches THEN MaxChunks ELSE MaxBatches

\* {"question":"<q>","answer":"<a>"}
ObjText(q, a) ==
  <<"{">> \o Field(KeyQuestion, q) \o <<",">> \o Field(KeyAnswer, a) \o <<"}">>

\* [{"question":"Câu 2 x","answer":""},{"question":"b","answer":"A"}]: a
\* question without its answer, and an answered one
RawPair ==
  <<"[">> \o ObjText(<<"C", "â", "u", " ", "2", " ", "x">>, << >>) \o <<",">>
    \o ObjText(<<"b">>, <<"A">>) \o <<"]">>

\* [{"question":"2: B","answer":""},{"question":"c","answer":""}]: a line
\* of an answer key, and a question without a number
RawKey ==
  <<"[">> \o ObjText(QKeyLetter, << >>) \o <<",">> \o ObjText(<<"c">>, << >>) \o <<"]">>

\* [{"question":"1","answer":null}]
RawNullAnswer ==
  <<"[", "{">> \o Field(KeyQuestion, <<"1">>) \o <<",">> \o Quoted(KeyAnswer)
    \o <<":">> \o LitNull \o <<"}", "]">>

\* oops
RawGarbage == <<"o", "o", "p", "s">>

\* [{"question":"2: 15","answer":""}]: a line of an answer key that gives
\* question 2 another answer than RawKey does
RawRival == <<"[">> \o ObjText(QKeyValue, << >>) \o <<"]">>

\* The texts the service answers with.
Replies == {RawGarbage, RawNullAnswer, RawPair, RawKey}

\* The texts the service answers the chunks of a document with whose
\* answer key gives question 2 twice.
KeyReplies == {RawPair, RawKey, RawRival}

\* self._extract_json(content) for each answer of the service
Extracted == [raw \in Replies \cup KeyReplies |-> ExtractJson(raw)]

\* self._aggressive_extract_json(last_content) for each answer of the service
Salvaged == [raw \in Replies \cup KeyReplies |-> AggressiveExtractJson(raw)]

\* if content: result = self._extract_json(content); if result: ...
Usable(raw) == raw # << >> /\ Extracted[raw] # << >>

\* A chunk task (or the task of a batch of images): where it stands in
\* _parse_single and _call_gemini, and its locals.  rank is no program
\* state: the place of the task in the order of completion.
NoTask ==
  [pc |-> "none", prompt |-> 0, tier |-> 0, attempt |-> 0,
   last |-> << >>, result |-> << >>, rank |-> 0]

Waiting == [NoTask EXCEPT !.pc = "wait"]

\* the semaphore is held and the first call of the first prompt is awaited
FirstCall == [NoTask EXCEPT !.pc = "call", !.prompt = 1, !.tier = 1]

Returned(result) == [NoTask EXCEPT !.pc = "returned", !.result = result]

Raised == [NoTask EXCEPT !.pc = "raised"]

Terminal == {"returned", "raised"}

\* The task is inside "async with self._semaphore".
Holding == {"call", "backoff", "sleep"}

\* What a step of a task leaves: the task, the pool, and the pool keys the
\* step wrote.
Outcome(task, newPool, wrote) == [task |-> task, pool |-> newPool, wrote |-> wrote]

\* self._collect_answers(result); return result -- c is what the collection
\* did, ifRaised where the task stands when _collect_answers raised.
Collected(result, c, ifRaised) ==
  Outcome(IF c.raised THEN ifRaised ELSE Returned(result), c.pool,
          DOMAIN CollectAnswers(EmptyPool, result).pool)

\* The salvage after the last prompt: _aggressive_extract_json(last_content)
\* and _collect_answers, whose raise leaves the task.
Salvage(t, thePool) ==
  IF t.last = << >> \/ Salvaged[t.last] = << >>
  THEN Outcome(Returned(<< >>), thePool, {})
  ELSE Collected(Salvaged[t.last], CollectAnswers(thePool, Salvaged[t.last]), Raised)

\* A loop over the prompts that starts over after the last prompt.
NextPromptStartsOver(t, thePool) ==
  Outcome([t EXCEPT !.pc = "call", !.prompt = IF @ < NumPrompts THEN @ + 1 ELSE 1,
                    !.tier = 1, !.attempt = 0],
          thePool, {})

\* The loop over the prompts moves on: the next prompt, or the salvage.
NextPrompt(t, thePool) ==
  IF t.prompt < NumPrompts
  THEN Outcome([t EXCEPT !.pc = "call", !.prompt = @ + 1, !.tier = 1, !.attempt = 0],
               thePool, {})
  ELSE Salvage(t, thePool)

\* _try_with_retry returned (None, content): the next tier is called, or
\* _call_gemini returns ([], content) and the prompt has an empty result.
TierFailedRetriesTier(t, content, thePool) ==
  IF t.attempt + 1 < RetryAttempts
  THEN Outcome([t EXCEPT !.pc = "call", !.attempt = @ + 1], thePool, {})
  ELSE IF t.tier < NumTiers
  THEN Outcome([t EXCEPT !.pc = "call", !.tier = @ + 1, !.attempt = 0], thePool, {})
  ELSE NextPrompt([t EXCEPT !.last = content], thePool)

TierFailed(t, content, thePool) ==
  IF t.tier < NumTiers
  THEN Outcome([t EXCEPT !.pc = "call", !.tier = @ + 1, !.attempt = 0], thePool, {})
  ELSE NextPrompt([t EXCEPT !.last = content], thePool)

\* _try_with_retry returned (result, content): last_content = raw_content,
\* then _collect_answers(result) and return result; a raise of
\* _collect_answers is caught and followed by asyncio.sleep(0.5).
TierSucceeded(t, result, content, thePool) ==
  Collected(result, CollectAnswers(thePool, result),
            [t EXCEPT !.pc = "sleep", !.tier = 0, !.attempt = 0, !.last = content])

\* The service answered the awaited call with the text raw.
AnsweredTriesEveryTier(t, raw, thePool) ==
  IF Usable(raw) /\ t.tier = NumTiers THEN TierSucceeded(t, Extracted[raw], raw, thePool)
  ELSE TierFailed(t, raw, thePool)

Answered(t, raw, thePool) ==
  IF Usable(raw) THEN TierSucceeded(t, Extracted[raw], raw, thePool)
  ELSE TierFailed(t, raw, thePool)

\* asyncio.Semaphore: the free permits and the tasks waiting in acquire(),
\* first come first served.
\* How many of n tasks that reach acquire() now get a permit at once.
PermitsUnbounded(s, n) == n

Permits(s, n) == IF s.waiters = << >> THEN Min(n, s.free) ELSE 0

\* The tasks lo..hi of call c reach "async with self._semaphore" in order.
Entered(s, c, lo, hi) ==
  [free |-> s.free - Permits(s, hi - lo + 1),
   waiters |-> s.waiters \o [k \in 1..(hi - lo + 1 - Permits(s, hi - lo + 1)) |->
                               <<c, lo + Permits(s, hi - lo + 1) + k - 1>>]]

\* release(): the permit goes to the first waiting task, or back.
Released(s) ==
  IF s.waiters = << >> THEN [s EXCEPT !.free = @ + 1]
  ELSE [s EXCEPT !.waiters = Tail(@)]

\* The first waiting task of s, if any, holds the permit and calls.
Handoff(ts, s) ==
  IF s.waiters = << >> THEN ts
  ELSE [ts EXCEPT ![Head(s.waiters)[1]][Head(s.waiters)[2]] = FirstCall]

NextRank(c) == 1 + Cardinality({i \in 1..MaxParts : tasks[c][i].pc \in Terminal})

\* q_hash = self._hash_question(q.get("question", "")) raises: q is no
\* dict, or the question is a true value without lower().
HashRaisesOn(q) ==
  \/ q.t # "obj"
  \/ Truthy(Get(q, KeyQuestion, EmptyStr)) /\ Get(q, KeyQuestion, EmptyStr).t # "str"

HashOf(q) ==
  IF Truthy(Get(q, KeyQuestion, EmptyStr)) THEN HashQuestion(Get(q, KeyQuestion, EmptyStr).v)
  ELSE << >>

\* results = await asyncio.gather(*tasks, return_exceptions=True) and the
\* loop that skips the exceptions: the indices of the tasks that returned.
SucceededUnlessAnyRaised(ts, n) ==
  IF \E i \in 1..n : ts[i].pc = "raised" THEN << >> ELSE [i \in 1..n |-> i]

Succeeded(ts, n) ==
  LET Ok(i) == ts[i].pc = "returned"
  IN  SelectSeq([i \in 1..n |-> i], Ok)

\* sorted_results.sort(key=lambda x: x[0])
SortByIndex(idx) ==
  [k \in 1..Len(idx) |->
     CHOOSE i \in {idx[j] : j \in 1..Len(idx)} :
       Cardinality({j \in 1..Len(idx) : idx[j] < i}) = k - 1]

\* The results in the order in which the tasks completed.
ResultsAsCompleted(ts, n) ==
  LET done == Succeeded(ts, n)
  IN  [k \in 1..Len(done) |->
         CHOOSE i \in {done[j] : j \in 1..Len(done)} :
           Cardinality({j \in 1..Len(done) : ts[done[j]].rank < ts[i].rank}) = k - 1]

SortedResults(ts, n) == SortByIndex(Succeeded(ts, n))

\* The records of the results, in the order of idx, each with its place.
RECURSIVE Concat(_, _)
Concat(ts, idx) ==
  IF idx = << >> THEN << >>
  ELSE Tagged(Head(idx), ts[Head(idx)].result) \o Concat(ts, Tail(idx))

\* The merge loop with seen_hashes: a record is kept when its hash is not
\* empty and no earlier record has it.
MergeUniqueKeepsLast(items) ==
  IF \E k \in 1..Len(items) : HashRaisesOn(items[k].rec)
  THEN [raised |-> TRUE, items |-> << >>]
  ELSE [raised |-> FALSE,
        items |-> Pick(items,
                       [k \in 1..Len(items) |->
                          /\ HashOf(items[k].rec) # << >>
                          /\ \A j \in (k + 1)..Len(items) :
                               HashOf(items[j].rec) # HashOf(items[k].rec)])]

MergeUnique(items) ==
  IF \E k \in 1..Len(items) : HashRaisesOn(items[k].rec)
  THEN [raised |-> TRUE, items |-> << >>]
  ELSE [raised |-> FALSE,
        items |-> Pick(items,
                       [k \in 1..Len(items) |->
                          /\ HashOf(items[k].rec) # << >>
                          /\ \A j \in 1..(k - 1) :
                               HashOf(items[j].rec) # HashOf(items[k].rec)])]

\* The loop of parse_images over the records of one batch: the hash, the
\* test against seen_hashes, all_questions.append(q), _collect_answers([q]).
RECURSIVE AddBatch(_, _, _, _)
AddBatch(all, thePool, wrote, items) ==
  IF items = << >>
  THEN [raised |-> FALSE, all |-> all, pool |-> thePool, wrote |-> wrote]
  ELSE IF HashRaisesOn(Head(items).rec)
  THEN [raised |-> TRUE, all |-> all, pool |-> thePool, wrote |-> wrote]
  ELSE IF \/ HashOf(Head(items).rec) = << >>
          \/ \E k \in 1..Len(all) : HashOf(all[k].rec) = HashOf(Head(items).rec)
  THEN AddBatch(all, thePool, wrote, Tail(items))
  ELSE IF CollectRaisesOn(Head(items).rec)
  THEN [raised |-> TRUE, all |-> Append(all, Head(items)), pool |-> thePool, wrote |-> wrote]
  ELSE AddBatch(Append(all, Head(items)), CollectOne(thePool, Head(items).rec),
                wrote \cup DOMAIN CollectOne(EmptyPool, Head(items).rec), Tail(items))

\* The calls whose pool entries the backfill of items reads.
Lenders(thePool, by, items) ==
  {by[QuestionNumber(Get(items[k].rec, KeyQuestion, EmptyStr).v).num] :
     k \in {j \in 1..Len(items) : NeedsBackfill(items[j].rec, thePool)}}

\* The writer of each pool entry after a step of call c that wrote keys.
Owners(by, newPool, wrote, c) ==
  [k \in DOMAIN newPool |-> IF k \in wrote THEN c ELSE by[k]]

\* A run: the document, where the call stands, and the loop state of
\* parse_images.  out is the returned list; pages is len(images) of
\* parse_images.  Two fields are no program state: progress, the arguments
\* of the invocations of progress_callback so far, and lent, the calls
\* whose pool entries the run's backfill read.
NoRun ==
  [kind |-> "off", long |-> FALSE, parts |-> 0, pc |-> "off", batch |-> 0,
   pages |-> 0, progress |-> << >>,
   all |-> << >>, out |-> << >>, lent |-> {}]

NewRun(doc) ==
  [NoRun EXCEPT !.kind = doc.kind, !.long = doc.long, !.parts = doc.parts,
                !.pages = doc.pages, !.pc = "new"]

\* "if total_pages <= 15: batch_size = total_pages / else: batch_size = 10"
SmallPdfPages == 15

BatchPages == 10

BatchSize(pages) == IF pages <= SmallPdfPages THEN pages ELSE BatchPages

\* len(range(0, total_pages, batch_size)): the batches of parse_images.
NumBatches(pages) == (pages + BatchSize(pages) - 1) \div BatchSize(pages)

\* batch_end of the batch b (from 1): min(batch_start + batch_size, total_pages)
BatchEnd(pages, b) == Min(b * BatchSize(pages), pages)

\* The fewest pages that make n batches.
PagesFor(n) == IF n = 1 THEN 1 ELSE SmallPdfPages + 1 + BatchPages * (n - 2)

\* A text that fits one chunk, a text that _smart_chunk cuts into parts
\* chunks, and page images that make parts batches.
TextDocs ==
  {[kind |-> "text", long |-> FALSE, parts |-> 1, pages |-> 0]}
    \cup {[kind |-> "text", long |-> TRUE, parts |-> n, pages |-> 0] : n \in 1..MaxChunks}

ImageDocs ==
  {[kind |-> "images", long |-> FALSE, parts |-> NumBatches(PagesFor(n)),
    pages |-> PagesFor(n)] : n \in 1..MaxBatches}

\* ------------------------------------------------------------------------
\* Spec: one call of parse or parse_images on a parser object
\* ------------------------------------------------------------------------

Init ==
  /\ runs \in {[c \in Calls |-> IF c = 1 THEN NewRun(doc) ELSE NoRun] :
                 doc \in TextDocs \cup ImageDocs}
  /\ tasks = [c \in Calls |-> [i \in 1..MaxParts |-> NoTask]]
  /\ sem = [free |-> MaxConcurrency, waiters |-> << >>]
  /\ answerPool = EmptyPool
  /\ poolBy = EmptyPool
  /\ faults = 0
  /\ faulty = {}
  /\ limited = MaxRateLimits
  /\ client \in BOOLEAN
  /\ recExtra = << >> /\ recIn = << >> /\ recPool = EmptyPool
  /\ recOut = << >> /\ recPc = "off"
  /\ rawText = << >> /\ recovered = << >> /\ recoveredAgain = << >> /\ recvPc = "off"
  /\ dupIn = << >> /\ dupOut = << >> /\ dupTwice = << >> /\ dupPc = "off"
  /\ chunkText = << >> /\ chunkSize = 0 /\ chunks = << >> /\ chunkPc = "off"

\* A parser that never finds its client missing.
ConfiguredAlways == TRUE

\* "if not self._client: raise RuntimeError(...)" does not raise.
Configured == client

\* The service can fail a call of task i of call c.
CanFail(c, i) ==
  /\ faults < MaxFaults
  /\ <<c, i>> \in faulty \/ Cardinality(faulty) < MaxFaultyTasks

\* A step of task i of call c ends with the outcome st: the pool is the
\* step's, a task that left "async with" releases the semaphore.
Settle(c, i, st) ==
  /\ answerPool' = st.pool
  /\ poolBy' = Owners(poolBy, st.pool, st.wrote, c)
  /\ IF st.task.pc \in Terminal
     THEN /\ sem' = Released(sem)
          /\ tasks' = Handoff([tasks EXCEPT ![c][i] = [st.task EXCEPT !.rank = NextRank(c)]],
                              sem)
     ELSE /\ tasks' = [tasks EXCEPT ![c][i] = st.task]
          /\ UNCHANGED sem
  /\ runs' = IF runs[c].long /\ st.task.pc = "returned"
             THEN [runs EXCEPT ![c].progress = Append(@, <<Len(@) + 1, runs[c].parts>>)]
             ELSE runs
  /\ UNCHANGED <<limited, client, recVars, recvVars, dupVars, chunkVars>>

\* parse or parse_images on a parser without a client: the RuntimeError
\* of the missing GOOGLE_API_KEY is raised to the caller.
Refuse(c) ==
  /\ runs[c].pc = "new"
  /\ ~Configured
  /\ runs' = [runs EXCEPT ![c].pc = "refused"]
  /\ UNCHANGED <<tasks, sem, answerPool, poolBy, faults, faulty, limited,
                 client, recVars, recvVars, dupVars, chunkVars>>

\* parse(text) up to "await asyncio.gather(*tasks)" or to the first await
\* of _parse_single: the pool is reset, and the chunk tasks reach the
\* semaphore in the order of their indices.
Parse(c) ==
  /\ runs[c].pc = "new"
  /\ runs[c].kind = "text"
  /\ Configured
  /\ answerPool' = EmptyPool
  /\ poolBy' = EmptyPool
  /\ sem' = Entered(sem, c, 1, runs[c].parts)
  /\ tasks' = [tasks EXCEPT ![c] =
                 [i \in 1..MaxParts |->
                    IF i <= Permits(sem, runs[c].parts) THEN FirstCall
                    ELSE IF i <= runs[c].parts THEN Waiting
                    ELSE NoTask]]
  /\ runs' = [runs EXCEPT ![c].pc = "tasks"]
  /\ UNCHANGED <<faults, faulty, limited, client, recVars, recvVars, dupVars, chunkVars>>

\* The awaited generate_content of a chunk task returns a response.
Reply(c, i) ==
  /\ runs[c].kind = "text"
  /\ tasks[c][i].pc = "call"
  /\ \E raw \in Replies :
       /\ ~Usable(raw) => CanFail(c, i)
       /\ faults' = IF Usable(raw) THEN faults ELSE faults + 1
       /\ faulty' = IF Usable(raw) THEN faulty ELSE faulty \cup {<<c, i>>}
       /\ Settle(c, i, Answered(tasks[c][i], raw, answerPool))

\* The same for the chunks of a document whose answer key gives
\* question 2 twice.
ReplyKeys(c, i) ==
  /\ runs[c].kind = "text"
  /\ tasks[c][i].pc = "call"
  /\ \E raw \in KeyReplies :
       /\ ~Usable(raw) => CanFail(c, i)
       /\ faults' = IF Usable(raw) THEN faults ELSE faults + 1
       /\ faulty' = IF Usable(raw) THEN faulty ELSE faulty \cup {<<c, i>>}
       /\ Settle(c, i, Answered(tasks[c][i], raw, answerPool))

\* The awaited generate_content raises a rate-limit error ("429" or
\* "RESOURCE_EXHAUSTED"): the task sleeps (attempt + 1) * 10 seconds.
RateLimited(c, i) ==
  /\ runs[c].kind = "text"
  /\ tasks[c][i].pc = "call"
  /\ limited > 0
  /\ limited' = limited - 1
  /\ tasks' = [tasks EXCEPT ![c][i].pc = "backoff"]
  /\ UNCHANGED <<runs, sem, answerPool, poolBy, faults, faulty,
                 client, recVars, recvVars, dupVars, chunkVars>>

\* The awaited generate_content raises another error: return None, "".
Fails(c, i) ==
  /\ runs[c].kind = "text"
  /\ tasks[c][i].pc = "call"
  /\ CanFail(c, i)
  /\ faults' = faults + 1
  /\ faulty' = faulty \cup {<<c, i>>}
  /\ Settle(c, i, TierFailed(tasks[c][i], << >>, answerPool))

\* The sleep after a rate-limit error ends: "continue" calls again, and
\* after the last attempt the loop is over and the tier returns None, "".
Retry(c, i) ==
  /\ tasks[c][i].pc = "backoff"
  /\ Settle(c, i,
            IF tasks[c][i].attempt + 1 < RetryAttempts
            THEN Outcome([tasks[c][i] EXCEPT !.pc = "call", !.attempt = @ + 1], answerPool, {})
            ELSE TierFailed(tasks[c][i], << >>, answerPool))
  /\ UNCHANGED <<faults, faulty>>

\* asyncio.sleep(0.5) in the except branch of _parse_single ends.
Resume(c, i) ==
  /\ tasks[c][i].pc = "sleep"
  /\ Settle(c, i, NextPrompt(tasks[c][i], answerPool))
  /\ UNCHANGED <<faults, faulty>>

\* parse returns what _parse_single returned for the only chunk, or the
\* exception of _parse_single reaches the caller.
ReturnSingle(c) ==
  /\ runs[c].pc = "tasks"
  /\ ~runs[c].long
  /\ tasks[c][1].pc \in Terminal
  /\ runs' = [runs EXCEPT
                ![c].pc = IF tasks[c][1].pc = "raised" THEN "raised" ELSE "done",
                ![c].out = Tagged(1, tasks[c][1].result)]
  /\ UNCHANGED <<tasks, sem, answerPool, poolBy, faults, faulty, limited,
                 client, recVars, recvVars, dupVars, chunkVars>>

\* _parse_chunked_parallel after gather: the results are sorted by chunk
\* index, merged without duplicates and matched against the pool.
Merge(c) ==
  /\ runs[c].pc = "tasks"
  /\ runs[c].long
  /\ \A i \in 1..runs[c].parts : tasks[c][i].pc \in Terminal
  /\ runs' =
       The({The({[runs EXCEPT
                    ![c].pc = IF merged.raised \/ m.raised THEN "raised" ELSE "done",
                    ![c].out = m.out,
                    ![c].lent = Lenders(answerPool, poolBy, merged.items)] :
                 m \in {MatchAnswersFromPool(answerPool, merged.items)}}) :
            merged \in {MergeUnique(Concat(tasks[c],
                                           SortedResults(tasks[c], runs[c].parts)))}})
  /\ UNCHANGED <<tasks, sem, answerPool, poolBy, faults, faulty, limited,
                 client, recVars, recvVars, dupVars, chunkVars>>

\* parse_images up to the first await of _call_gemini_vision: the pool is
\* reset and the first batch takes the semaphore.
ParseImages(c) ==
  /\ runs[c].pc = "new"
  /\ runs[c].kind = "images"
  /\ Configured
  /\ answerPool' = EmptyPool
  /\ poolBy' = EmptyPool
  /\ sem' = Entered(sem, c, 1, 1)
  /\ tasks' = [tasks EXCEPT ![c][1] = IF Permits(sem, 1) = 1 THEN FirstCall ELSE Waiting]
  /\ runs' = [runs EXCEPT ![c].pc = "batches", ![c].batch = 1]
  /\ UNCHANGED <<faults, faulty, limited, client, recVars, recvVars, dupVars, chunkVars>>

\* parse_images after the batch b: m is what the loop over the records
\* of the batch left, s and ts the semaphore and the tasks after the
\* release; then the next batch, or the matching and the return.
BatchSettled(c, b, m, s, ts) ==
  /\ answerPool' = m.pool
  /\ poolBy' = Owners(poolBy, m.pool, m.wrote, c)
  /\ IF m.raised
     THEN /\ runs' = [runs EXCEPT ![c].pc = "raised", ![c].all = m.all]
          /\ sem' = s
          /\ tasks' = ts
     ELSE IF b < runs[c].parts
     THEN /\ runs' = [runs EXCEPT ![c].batch = b + 1, ![c].all = m.all,
                                  ![c].progress = Append(@, <<BatchEnd(runs[c].pages, b),
                                                              runs[c].pages>>)]
          /\ sem' = Entered(s, c, b + 1, b + 1)
          /\ tasks' = [ts EXCEPT ![c][b + 1] =
                         IF Permits(s, 1) = 1 THEN FirstCall ELSE Waiting]
     ELSE /\ runs' = The({[runs EXCEPT
                             ![c].pc = IF mm.raised THEN "raised" ELSE "done",
                             ![c].all = m.all,
                             ![c].progress = Append(@, <<BatchEnd(runs[c].pages, b),
                                                         runs[c].pages>>),
                             ![c].out = mm.out,
                             ![c].lent = Lenders(m.pool,
                                                 Owners(poolBy, m.pool, m.wrote, c),
                                                 m.all)] :
                          mm \in {MatchAnswersFromPool(m.pool, m.all)}})
          /\ sem' = s
          /\ tasks' = ts

\* _call_gemini_vision returned result for the batch runs[c].batch.
BatchDone(c, result) ==
  BatchSettled(c, runs[c].batch,
               AddBatch(runs[c].all, answerPool, {}, Tagged(runs[c].batch, result)),
               Released(sem),
               Handoff([tasks EXCEPT ![c][runs[c].batch] =
                          [Returned(result) EXCEPT !.rank = NextRank(c)]],
                       sem))

\* An awaited generate_content of _call_gemini_vision returns a response.
VisionReply(c) ==
  /\ runs[c].pc = "batches"
  /\ tasks[c][runs[c].batch].pc = "call"
  /\ \E raw \in Replies :
       /\ ~Usable(raw) => CanFail(c, runs[c].batch)
       /\ faults' = IF Usable(raw) THEN faults ELSE faults + 1
       /\ faulty' = IF Usable(raw) THEN faulty ELSE faulty \cup {<<c, runs[c].batch>>}
       /\ IF ~Usable(raw) /\ tasks[c][runs[c].batch].tier < NumTiers
          THEN /\ tasks' = [tasks EXCEPT ![c][runs[c].batch].tier = @ + 1,
                                         ![c][runs[c].batch].last = raw]
               /\ UNCHANGED <<runs, sem, answerPool, poolBy>>
          ELSE BatchDone(c, Extracted[raw])
  /\ UNCHANGED <<limited, client, recVars, recvVars, dupVars, chunkVars>>

\* An awaited generate_content of _call_gemini_vision raises: the next
\* tier, or after the last one what the content of an earlier tier holds.
VisionFails(c) ==
  /\ runs[c].pc = "batches"
  /\ tasks[c][runs[c].batch].pc = "call"
  /\ CanFail(c, runs[c].batch)
  /\ faults' = faults + 1
  /\ faulty' = faulty \cup {<<c, runs[c].batch>>}
  /\ IF tasks[c][runs[c].batch].tier < NumTiers
     THEN /\ tasks' = [tasks EXCEPT ![c][runs[c].batch].tier = @ + 1]
          /\ UNCHANGED <<runs, sem, answerPool, poolBy>>
     ELSE BatchDone(c, IF tasks[c][runs[c].batch].last = << >> THEN << >>
                       ELSE Extracted[tasks[c][runs[c].batch].last])
  /\ UNCHANGED <<limited, client, recVars, recvVars, dupVars, chunkVars>>

Next ==
  \E c \in Calls :
    \/ Refuse(c)
    \/ Parse(c)
    \/ ParseImages(c)
    \/ ReturnSingle(c)
    \/ Merge(c)
    \/ VisionReply(c)
    \/ VisionFails(c)
    \/ \E i \in 1..MaxParts :
         \/ Reply(c, i)
         \/ RateLimited(c, i)
         \/ Fails(c, i)
         \/ Retry(c, i)
         \/ Resume(c, i)

Spec == Init /\ [][Next]_vars

\* ------------------------------------------------------------------------
\* SpecShared: two calls of parse that overlap on one parser object; the
\* service answers every call with a list of records
\* ------------------------------------------------------------------------

SharedInit ==
  /\ runs \in [Calls -> {NewRun(doc) : doc \in {d \in TextDocs : d.parts <= MaxConcurrency}}]
  /\ tasks = [c \in Calls |-> [i \in 1..MaxParts |-> NoTask]]
  /\ sem = [free |-> MaxConcurrency, waiters |-> << >>]
  /\ answerPool = EmptyPool
  /\ poolBy = EmptyPool
  /\ faults = MaxFaults
  /\ faulty = {}
  /\ limited = 0
  /\ client = TRUE
  /\ recExtra = << >> /\ recIn = << >> /\ recPool = EmptyPool
  /\ recOut = << >> /\ recPc = "off"
  /\ rawText = << >> /\ recovered = << >> /\ recoveredAgain = << >> /\ recvPc = "off"
  /\ dupIn = << >> /\ dupOut = << >> /\ dupTwice = << >> /\ dupPc = "off"
  /\ chunkText = << >> /\ chunkSize = 0 /\ chunks = << >> /\ chunkPc = "off"

SharedNext ==
  \E c \in Calls :
    \/ Parse(c)
    \/ ReturnSingle(c)
    \/ Merge(c)
    \/ \E i \in 1..MaxParts :
         \/ Reply(c, i)
         \/ Resume(c, i)

SpecShared == SharedInit /\ [][SharedNext]_vars

\* ------------------------------------------------------------------------
\* SpecLadder: one call of parse on a text of one chunk, whose only task
\* climbs down the prompts, tiers and retries; SpecLadderFair adds that
\* the event loop runs what is ready and that every sleep ends
\* ------------------------------------------------------------------------

LadderInit ==
  /\ runs = [c \in Calls |->
               IF c = 1 THEN NewRun([kind |-> "text", long |-> FALSE, parts |-> 1, pages |-> 0])
               ELSE NoRun]
  /\ tasks = [c \in Calls |-> [i \in 1..MaxParts |-> NoTask]]
  /\ sem = [free |-> MaxConcurrency, waiters |-> << >>]
  /\ answerPool = EmptyPool
  /\ poolBy = EmptyPool
  /\ faults = 0
  /\ faulty = {}
  /\ limited = MaxLadderRateLimits
  /\ client = TRUE
  /\ recExtra = << >> /\ recIn = << >> /\ recPool = EmptyPool
  /\ recOut = << >> /\ recPc = "off"
  /\ rawText = << >> /\ recovered = << >> /\ recoveredAgain = << >> /\ recvPc = "off"
  /\ dupIn = << >> /\ dupOut = << >> /\ dupTwice = << >> /\ dupPc = "off"
  /\ chunkText = << >> /\ chunkSize = 0 /\ chunks = << >> /\ chunkPc = "off"

LadderNext ==
  \E c \in Calls :
    \/ Parse(c)
    \/ ReturnSingle(c)
    \/ \E i \in 1..MaxParts :
         \/ Reply(c, i)
         \/ RateLimited(c, i)
         \/ Fails(c, i)
         \/ Retry(c, i)
         \/ Resume(c, i)

SpecLadder == LadderInit /\ [][LadderNext]_vars

\* The event loop runs a coroutine that is ready, and asyncio.sleep ends;
\* nothing makes the service answer an awaited call.
LadderFairness ==
  \A c \in Calls :
    /\ WF_vars(Parse(c))
    /\ WF_vars(ReturnSingle(c))
    /\ \A i \in 1..MaxParts : WF_vars(Retry(c, i)) /\ WF_vars(Resume(c, i))

SpecLadderFair == LadderInit /\ [][LadderNext]_vars /\ LadderFairness

\* ------------------------------------------------------------------------
\* SpecOrder: one call of parse on a text of several chunks whose answer
\* key gives question 2 twice; the service answers every call with a list
\* of records
\* ------------------------------------------------------------------------

OrderInit ==
  /\ runs \in {[c \in Calls |-> IF c = 1 THEN NewRun(doc) ELSE NoRun] :
                 doc \in {d \in TextDocs : d.long /\ d.parts > 1}}
  /\ tasks = [c \in Calls |-> [i \in 1..MaxParts |-> NoTask]]
  /\ sem = [free |-> MaxConcurrency, waiters |-> << >>]
  /\ answerPool = EmptyPool
  /\ poolBy = EmptyPool
  /\ faults = MaxFaults
  /\ faulty = {}
  /\ limited = 0
  /\ client = TRUE
  /\ recExtra = << >> /\ recIn = << >> /\ recPool = EmptyPool
  /\ recOut = << >> /\ recPc = "off"
  /\ rawText = << >> /\ recovered = << >> /\ recoveredAgain = << >> /\ recvPc = "off"
  /\ dupIn = << >> /\ dupOut = << >> /\ dupTwice = << >> /\ dupPc = "off"
  /\ chunkText = << >> /\ chunkSize = 0 /\ chunks = << >> /\ chunkPc = "off"

OrderNext ==
  \E c \in Calls :
    \/ Parse(c)
    \/ Merge(c)
    \/ \E i \in 1..MaxParts : ReplyKeys(c, i)

SpecOrder == OrderInit /\ [][OrderNext]_vars

\* ------------------------------------------------------------------------
\* SpecBudget: one call of parse on a text of one chunk, or of
\* parse_images on one batch of pages, against a service that can fail
\* every tier of every prompt after every retry
\* ------------------------------------------------------------------------

\* The rate-limit errors that use up every retry of every tier of every
\* prompt.
FullLadderRateLimits == NumPrompts * NumTiers * (RetryAttempts - 1)

BudgetInit ==
  /\ runs \in {[c \in Calls |-> IF c = 1 THEN NewRun(doc) ELSE NoRun] :
                 doc \in {d \in TextDocs \cup ImageDocs : ~d.long /\ d.parts = 1}}
  /\ tasks = [c \in Calls |-> [i \in 1..MaxParts |-> NoTask]]
  /\ sem = [free |-> MaxConcurrency, waiters |-> << >>]
  /\ answerPool = EmptyPool
  /\ poolBy = EmptyPool
  /\ faults = 0
  /\ faulty = {}
  /\ limited = FullLadderRateLimits
  /\ client = TRUE
  /\ recExtra = << >> /\ recIn = << >> /\ recPool = EmptyPool
  /\ recOut = << >> /\ recPc = "off"
  /\ rawText = << >> /\ recovered = << >> /\ recoveredAgain = << >> /\ recvPc = "off"
  /\ dupIn = << >> /\ dupOut = << >> /\ dupTwice = << >> /\ dupPc = "off"
  /\ chunkText = << >> /\ chunkSize = 0 /\ chunks = << >> /\ chunkPc = "off"

BudgetNext ==
  \E c \in Calls :
    \/ Parse(c)
    \/ ParseImages(c)
    \/ ReturnSingle(c)
    \/ VisionReply(c)
    \/ VisionFails(c)
    \/ \E i \in 1..MaxParts :
         \/ Reply(c, i)
         \/ RateLimited(c, i)
         \/ Fails(c, i)
         \/ Retry(c, i)
         \/ Resume(c, i)

SpecBudget == BudgetInit /\ [][BudgetNext]_vars

\* ------------------------------------------------------------------------
\* SpecPure: _extract_json called twice on one text while a parse of one
\* chunk runs on the parser object
\* ------------------------------------------------------------------------

\* self._extract_json(content) once more, on the same content
RecoverAgain ==
  /\ recvPc = "done"
  /\ recoveredAgain' = ExtractJson(rawText)
  /\ recvPc' = "again"
  /\ UNCHANGED <<rawText, recovered, recVars, dupVars, chunkVars, runVars>>

\* The answers of the service, and an array with a run of 3 backslashes
\* in every wrapping.
PureTexts == Replies \cup {RepairText(w, 3, "s") : w \in Wrappings}

PureInit ==
  /\ runs = [c \in Calls |->
               IF c = 1 THEN NewRun([kind |-> "text", long |-> FALSE, parts |-> 1, pages |-> 0])
               ELSE NoRun]
  /\ tasks = [c \in Calls |-> [i \in 1..MaxParts |-> NoTask]]
  /\ sem = [free |-> MaxConcurrency, waiters |-> << >>]
  /\ answerPool = EmptyPool
  /\ poolBy = EmptyPool
  /\ faults = 0
  /\ faulty = {}
  /\ limited = 0
  /\ client = TRUE
  /\ recExtra = << >> /\ recIn = << >> /\ recPool = EmptyPool
  /\ recOut = << >> /\ recPc = "off"
  /\ rawText \in PureTexts
  /\ recovered = << >>
  /\ recoveredAgain = << >>
  /\ recvPc = "raw"
  /\ dupIn = << >> /\ dupOut = << >> /\ dupTwice = << >> /\ dupPc = "off"
  /\ chunkText = << >> /\ chunkSize = 0 /\ chunks = << >> /\ chunkPc = "off"

PureNext ==
  \/ Recover
  \/ RecoverAgain
  \/ \E c \in Calls :
       \/ Parse(c)
       \/ ReturnSingle(c)
       \/ \E i \in 1..MaxParts :
            \/ Reply(c, i)
            \/ Fails(c, i)
            \/ Resume(c, i)

SpecPure == PureInit /\ [][PureNext]_vars

\* ------------------------------------------------------------------------
\* SpecCancel: one call of parse on a text, which its caller can cancel
\* while it is suspended; the service answers every call with a list of
\* records or with a rate-limit error
\* ------------------------------------------------------------------------

\* The task is suspended: in acquire(), in generate_content or in a sleep.
Suspended == {"wait"} \cup Holding

\* Task.cancel() on a chunk task: CancelledError is raised at the await
\* the task is suspended in.  It is no Exception, so neither "except
\* Exception" of _try_with_retry nor that of _parse_single catches it, and
\* the task ends where it stands.
InterruptedAsException(t) ==
  IF t.pc = "call" THEN TierFailed(t, << >>, EmptyPool).task
  ELSE IF t.pc \in Suspended THEN [t EXCEPT !.pc = "cancelled"]
  ELSE t

Interrupted(t) == IF t.pc \in Suspended THEN [t EXCEPT !.pc = "cancelled"] ELSE t

\* The tasks of call c leave the queue and keep their permits.
WithdrawnKeepsPermits(s, c) ==
  LET Other(w) == w[1] # c
  IN  [free |-> s.free, waiters |-> SelectSeq(s.waiters, Other)]

\* The semaphore after the tasks of call c left it: their permits are
\* back, their places in the queue are gone.
Withdrawn(s, c) ==
  LET Other(w) == w[1] # c
  IN  [free |-> s.free + Cardinality({i \in 1..MaxParts : tasks[c][i].pc \in Holding}),
       waiters |-> SelectSeq(s.waiters, Other)]

\* The first waiting tasks of s get the free permits of s.
Granted(s) ==
  [free |-> s.free - Min(s.free, Len(s.waiters)),
   waiters |-> SubSeq(s.waiters, Min(s.free, Len(s.waiters)) + 1, Len(s.waiters))]

\* The caller cancels the task that runs parse or parse_images of call c
\* while it is suspended in gather, in _parse_single or in
\* _call_gemini_vision: gather cancels every chunk task.
Cancel(c) ==
  /\ runs[c].pc \in {"tasks", "batches"}
  /\ runs[c].long \/ \E i \in 1..MaxParts : tasks[c][i].pc \in Suspended
  /\ runs' = [runs EXCEPT ![c].pc = "cancelled"]
  /\ sem' = Granted(Withdrawn(sem, c))
  /\ tasks' = [d \in Calls |-> [i \in 1..MaxParts |->
                 IF d = c THEN Interrupted(tasks[c][i])
                 ELSE IF \E k \in 1..Min(Withdrawn(sem, c).free, Len(Withdrawn(sem, c).waiters)) :
                           Withdrawn(sem, c).waiters[k] = <<d, i>>
                 THEN FirstCall
                 ELSE tasks[d][i]]]
  /\ UNCHANGED <<answerPool, poolBy, faults, faulty, limited,
                 client, recVars, recvVars, dupVars, chunkVars>>

CancelInit ==
  /\ runs \in {[c \in Calls |-> IF c = 1 THEN NewRun(doc) ELSE NoRun] : doc \in TextDocs}
  /\ tasks = [c \in Calls |-> [i \in 1..MaxParts |-> NoTask]]
  /\ sem = [free |-> MaxConcurrency, waiters |-> << >>]
  /\ answerPool = EmptyPool
  /\ poolBy = EmptyPool
  /\ faults = MaxFaults
  /\ faulty = {}
  /\ limited = MaxRateLimits
  /\ client = TRUE
  /\ recExtra = << >> /\ recIn = << >> /\ recPool = EmptyPool
  /\ recOut = << >> /\ recPc = "off"
  /\ rawText = << >> /\ recovered = << >> /\ recoveredAgain = << >> /\ recvPc = "off"
  /\ dupIn = << >> /\ dupOut = << >> /\ dupTwice = << >> /\ dupPc = "off"
  /\ chunkText = << >> /\ chunkSize = 0 /\ chunks = << >> /\ chunkPc = "off"

CancelNext ==
  \E c \in Calls :
    \/ Parse(c)
    \/ ReturnSingle(c)
    \/ Merge(c)
    \/ Cancel(c)
    \/ \E i \in 1..MaxParts :
         \/ Reply(c, i)
         \/ RateLimited(c, i)
         \/ Retry(c, i)
         \/ Resume(c, i)

SpecCancel == CancelInit /\ [][CancelNext]_vars

\* ------------------------------------------------------------------------
\* SpecPermits: a call of parse on a text of more chunks than the limiter
\* has permits, and a call of parse or parse_images that overlaps it on
\* the same parser object; the caller of each can cancel it, and the
\* service answers every call with a list of records.  SpecPermitsFair adds that the event
\* loop runs what is ready and that every sleep ends
\* ------------------------------------------------------------------------

PermitsInit ==
  /\ runs \in {[c \in Calls |-> IF c = 1 THEN NewRun(doc) ELSE NewRun(other)] :
                 doc \in {d \in TextDocs : d.parts > MaxConcurrency},
                 other \in {d \in TextDocs : ~d.long} \cup ImageDocs}
  /\ tasks = [c \in Calls |-> [i \in 1..MaxParts |-> NoTask]]
  /\ sem = [free |-> MaxConcurrency, waiters |-> << >>]
  /\ answerPool = EmptyPool
  /\ poolBy = EmptyPool
  /\ faults = MaxFaults
  /\ faulty = {}
  /\ limited = 0
  /\ client = TRUE
  /\ recExtra = << >> /\ recIn = << >> /\ recPool = EmptyPool
  /\ recOut = << >> /\ recPc = "off"
  /\ rawText = << >> /\ recovered = << >> /\ recoveredAgain = << >> /\ recvPc = "off"
  /\ dupIn = << >> /\ dupOut = << >> /\ dupTwice = << >> /\ dupPc = "off"
  /\ chunkText = << >> /\ chunkSize = 0 /\ chunks = << >> /\ chunkPc = "off"

PermitsNext ==
  \E c \in Calls :
    \/ Parse(c)
    \/ ParseImages(c)
    \/ ReturnSingle(c)
    \/ Merge(c)
    \/ VisionReply(c)
    \/ Cancel(c)
    \/ \E i \in 1..MaxParts :
         \/ Reply(c, i)
         \/ Resume(c, i)

SpecPermits == PermitsInit /\ [][PermitsNext]_vars

\* asyncio.sleep(0.5) ends; nothing makes the service answer an awaited
\* call.
PermitsFairness == \A c \in Calls : \A i \in 1..MaxParts : WF_vars(Resume(c, i))

SpecPermitsFair == PermitsInit /\ [][PermitsNext]_vars /\ PermitsFairness

\* ------------------------------------------------------------------------
\* _smart_chunk and _chunk_by_size (indices are 1-based here)
\* ------------------------------------------------------------------------

WordQuestion == <<"q", "u", "e", "s", "t", "i", "o", "n">>

\* [IVX] under re.IGNORECASE
RomanLetters == {"I", "V", "X", "i", "v", "x"}

\* \s+\d+ matched at index i of s: the index behind the match, 0 when
\* there is none.
SpacesThenDigits(s, i) ==
  IF SkipSpaces(s, i) > i /\ SkipDigits(s, SkipSpaces(s, i)) > SkipSpaces(s, i)
  THEN SkipDigits(s, SkipSpaces(s, i))
  ELSE 0

\* One character of marks and \s+ matched at index i of s: the index
\* behind the match, 0 when there is none.
MarkThenSpaces(s, i, marks) ==
  IF i <= Len(s) /\ s[i] \in marks /\ SkipSpaces(s, i + 1) > i + 1
  THEN SkipSpaces(s, i + 1)
  ELSE 0

\* The alternatives of question_patterns behind "\n\s*", tried at index j.
BoundaryBody(s, j) ==
  IF HasWordAt(s, j, WordCau) \/ HasWordAt(s, j, WordBai)
  THEN SpacesThenDigits(s, j + 3)
  ELSE IF SkipDigits(s, j) > j
  THEN MarkThenSpaces(s, SkipDigits(s, j), {".", ")"})
  ELSE IF SkipClass(s, j, RomanLetters) > j
  THEN MarkThenSpaces(s, SkipClass(s, j, RomanLetters), {"."})
  ELSE IF HasWordAt(s, j, WordQuestion)
  THEN SpacesThenDigits(s, j + Len(WordQuestion))
  ELSE 0

\* pattern matched at index k of s: the index behind the match, 0 when the
\* pattern does not match there.
BoundaryEnd(s, k) ==
  IF s[k] = "\n" THEN BoundaryBody(s, SkipSpaces(s, k + 1)) ELSE 0

\* The start of the first match at or behind index pos, 0 when none.
NextSplit(s, pos) ==
  IF \E k \in pos..Len(s) : BoundaryEnd(s, k) # 0
  THEN CHOOSE k \in pos..Len(s) :
         BoundaryEnd(s, k) # 0 /\ \A m \in pos..(k - 1) : BoundaryEnd(s, m) = 0
  ELSE 0

\* [m.start() for m in re.finditer(pattern, text, re.IGNORECASE)] from pos on
RECURSIVE SplitsFrom(_, _)
SplitsFrom(s, pos) ==
  The({IF k = 0 THEN << >> ELSE <<k>> \o SplitsFrom(s, BoundaryEnd(s, k)) :
       k \in {NextSplit(s, pos)}})

\* chunk.rfind(sep) as Python counts: from 0, and -1 when sep is not there
RFind(s, sep) ==
  IF \E k \in 1..Len(s) : HasLiteralAt(s, k, sep)
  THEN (CHOOSE k \in 1..Len(s) :
          HasLiteralAt(s, k, sep) /\ \A m \in (k + 1)..Len(s) : ~HasLiteralAt(s, m, sep)) - 1
  ELSE -1

\* The loop over the separators: the chunk is cut behind the last
\* separator that lies behind the middle of max_chunk_size.
CutAtBreak(chunk, max_chunk_size) ==
  IF 2 * RFind(chunk, <<"\n", "\n">>) > max_chunk_size
  THEN SubSeq(chunk, 1, RFind(chunk, <<"\n", "\n">>) + 2)
  ELSE IF 2 * RFind(chunk, <<"\n">>) > max_chunk_size
  THEN SubSeq(chunk, 1, RFind(chunk, <<"\n">>) + 1)
  ELSE IF 2 * RFind(chunk, <<".", " ">>) > max_chunk_size
  THEN SubSeq(chunk, 1, RFind(chunk, <<".", " ">>) + 2)
  ELSE chunk

\* _chunk_by_size: the chunks from index pos on.
RECURSIVE ChunkBySize(_, _, _)
ChunkBySize(text, max_chunk_size, pos) ==
  IF pos > Len(text) THEN << >>
  ELSE The({<<chunk>> \o ChunkBySize(text, max_chunk_size, pos + Len(chunk)) :
            chunk \in {IF pos + max_chunk_size - 1 < Len(text)
                       THEN CutAtBreak(SubSeq(text, pos, pos + max_chunk_size - 1),
                                       max_chunk_size)
                       ELSE SubSeq(text, pos, Len(text))}})

\* if current_chunk.strip(): chunks.append(current_chunk)
AppendIfText(chunk_list, current_chunk) ==
  IF Strip(current_chunk) # << >> THEN Append(chunk_list, current_chunk) ELSE chunk_list

\* text[start:end] of the i-th match
QuestionText(text, splits, i) ==
  SubSeq(text, splits[i], IF i < Len(splits) THEN splits[i + 1] - 1 ELSE Len(text))

\* The loop of _smart_chunk over the matches from the i-th on, and the
\* append behind it.
RECURSIVE ChunkLoop(_, _, _, _, _, _)
ChunkLoop(text, max_chunk_size, splits, i, current_chunk, chunk_list) ==
  IF i > Len(splits) THEN AppendIfText(chunk_list, current_chunk)
  ELSE IF Len(current_chunk) + Len(QuestionText(text, splits, i)) > max_chunk_size
  THEN ChunkLoop(text, max_chunk_size, splits, i + 1, QuestionText(text, splits, i),
                 AppendIfText(chunk_list, current_chunk))
  ELSE ChunkLoop(text, max_chunk_size, splits, i + 1,
                 current_chunk \o QuestionText(text, splits, i), chunk_list)

\* _smart_chunk
SmartChunkFromFirstMatch(text, max_chunk_size) ==
  The({IF splits = << >> THEN ChunkBySize(text, max_chunk_size, 1)
       ELSE The({IF chunk_list # << >> THEN chunk_list ELSE <<text>> :
                 chunk_list \in {ChunkLoop(text, max_chunk_size, splits, 1, << >>, << >>)}}) :
       splits \in {SplitsFrom(text, 1)}})

SmartChunk(text, max_chunk_size) ==
  The({IF splits = << >> THEN ChunkBySize(text, max_chunk_size, 1)
       ELSE The({IF chunk_list # << >> THEN chunk_list ELSE <<text>> :
                 chunk_list \in {ChunkLoop(text, max_chunk_size, splits, 1,
                                           SubSeq(text, 1, splits[1] - 1), << >>)}}) :
       splits \in {SplitsFrom(text, 1)}})

\* ------------------------------------------------------------------------
\* SpecChunk: _smart_chunk on a text
\* ------------------------------------------------------------------------

\* The pieces the texts are made of: letters, white space, the breaks of
\* _chunk_by_size and two question markers.
ChunkPieces ==
  {<<"a">>, <<"a", "a">>, <<" ">>, <<"\n">>, <<".", " ">>,
   <<"\n", "1", ".", " ">>, <<"\n", "C", "â", "u", " ", "1">>}

\* the most pieces of a text
MaxPieces == 4

\* the largest max_chunk_size
MaxChunkSize == 5

RECURSIVE Joined(_)
Joined(parts) == IF parts = << >> THEN << >> ELSE Head(parts) \o Joined(Tail(parts))

\* The non-empty texts.
ChunkTexts == {Joined(parts) : parts \in ListsUpTo(ChunkPieces, MaxPieces)} \ {<< >>}

ChunkInit ==
  /\ chunkText \in ChunkTexts
  /\ chunkSize \in 1..MaxChunkSize
  /\ chunks = << >>
  /\ chunkPc = "text"
  /\ dupIn = << >> /\ dupOut = << >> /\ dupTwice = << >> /\ dupPc = "off"
  /\ recExtra = << >> /\ recIn = << >> /\ recPool = EmptyPool
  /\ recOut = << >> /\ recPc = "off"
  /\ rawText = << >> /\ recovered = << >> /\ recoveredAgain = << >> /\ recvPc = "off"
  /\ runs = [c \in {1, 2} |->
               [kind |-> "off", long |-> FALSE, parts |-> 0, pc |-> "off", batch |-> 0,
                pages |-> 0, progress |-> << >>,
                all |-> << >>, out |-> << >>, lent |-> {}]]
  /\ tasks = << >>
  /\ sem = [free |-> 0, waiters |-> << >>]
  /\ answerPool = << >>
  /\ poolBy = << >>
  /\ faults = 0
  /\ faulty = {}
  /\ limited = 0
  /\ client = TRUE

\* chunks = self._smart_chunk(text)
Chunk ==
  /\ chunkPc = "text"
  /\ chunks' = SmartChunk(chunkText, chunkSize)
  /\ chunkPc' = "done"
  /\ UNCHANGED <<chunkText, chunkSize, recVars, recvVars, dupVars, runVars>>

ChunkNext == Chunk

SpecChunk == ChunkInit /\ [][ChunkNext]_vars

\* ------------------------------------------------------------------------
\* SpecDedupe: the merge loop of _parse_chunked_parallel over the records
\* of the sorted results, and the same loop over its own output
\* ------------------------------------------------------------------------

\* 150 times "x" and one more character: questions that differ only
\* behind the prefix the hash keeps
DupLong(c) == [i \in 1..HashPrefixLen |-> "x"] \o <<c>>

\* "a b", "A  B", "c", "", " " and two long questions
DupQuestions ==
  {<<"a", " ", "b">>, <<"A", " ", " ", "B">>, <<"c">>, << >>, <<" ">>,
   DupLong("a"), DupLong("b")}

\* {"answer": "A"}: a record without a question
NoQuestion == JObj(<<Member(KeyAnswer, JStr(<<"A">>))>>)

DupCatalogue == {QA(q, << >>) : q \in DupQuestions} \cup {NoQuestion}

\* the longest list handed to one merge loop
MaxDupRecs == 3

DedupeInit ==
  /\ dupIn \in ListsUpTo(DupCatalogue, MaxDupRecs)
  /\ dupOut = << >>
  /\ dupTwice = << >>
  /\ dupPc = "new"
  /\ chunkText = << >> /\ chunkSize = 0 /\ chunks = << >> /\ chunkPc = "off"
  /\ recExtra = << >> /\ recIn = << >> /\ recPool = EmptyPool
  /\ recOut = << >> /\ recPc = "off"
  /\ rawText = << >> /\ recovered = << >> /\ recoveredAgain = << >> /\ recvPc = "off"
  /\ runs = [c \in {1, 2} |->
               [kind |-> "off", long |-> FALSE, parts |-> 0, pc |-> "off", batch |-> 0,
                pages |-> 0, progress |-> << >>,
                all |-> << >>, out |-> << >>, lent |-> {}]]
  /\ tasks = << >>
  /\ sem = [free |-> 0, waiters |-> << >>]
  /\ answerPool = << >>
  /\ poolBy = << >>
  /\ faults = 0
  /\ faulty = {}
  /\ limited = 0
  /\ client = TRUE

\* The loop with seen_hashes over the records of dupIn.
Dedupe ==
  /\ dupPc = "new"
  /\ dupOut' = MergeUnique(Tagged(1, dupIn)).items
  /\ dupPc' = "once"
  /\ UNCHANGED <<dupIn, dupTwice, recVars, recvVars, chunkVars, runVars>>

\* The same loop over the list it produced.
DedupeAgain ==
  /\ dupPc = "once"
  /\ dupTwice' = MergeUnique(dupOut).items
  /\ dupPc' = "twice"
  /\ UNCHANGED <<dupIn, dupOut, recVars, recvVars, chunkVars, runVars>>

DedupeNext == Dedupe \/ DedupeAgain

SpecDedupe == DedupeInit /\ [][DedupeNext]_vars

\* ------------------------------------------------------------------------
\* The specifications of the reconciler and of the recovery ladder
\* ------------------------------------------------------------------------

SpecReconcile == RecInit /\ [][RecNext]_vars

SpecRecover == RecoverInit /\ [][RecoverNext]_vars

SpecRepair == RepairInit /\ [][RepairNext]_vars

\* ------------------------------------------------------------------------
\* Claims about the runs
\* ------------------------------------------------------------------------

\* The chunked run of call c has returned its list.
ChunkedDone(c) == runs[c].long /\ runs[c].pc = "done"

\* The item of the output stands for the record at its place in the result
\* of a chunk task that returned.
FromItsChunk(c, item) ==
  /\ item.src[1] \in 1..runs[c].parts
  /\ tasks[c][item.src[1]].pc = "returned"
  /\ item.src[2] \in 1..Len(tasks[c][item.src[1]].result)
  /\ Get(item.rec, KeyQuestion, JNull) =
       Get(tasks[c][item.src[1]].result[item.src[2]], KeyQuestion, JNull)

\* The place a comes before the place b: an earlier chunk, or the same
\* chunk and an earlier position in its result.
PlaceBefore(a, b) == a[1] < b[1] \/ (a[1] = b[1] /\ a[2] < b[2])

\* C1: in a chunked text run, for every completion order of the chunk
\* tasks, the output lists the records of chunk i before those of chunk j
\* whenever i < j, and the records of one chunk in the order of that
\* chunk's result.
C1_ChunkOrderKept ==
  \A c \in Calls :
    ChunkedDone(c) =>
      /\ \A k \in 1..Len(runs[c].out) : FromItsChunk(c, runs[c].out[k])
      /\ \A k \in 1..Len(runs[c].out) : \A l \in (k + 1)..Len(runs[c].out) :
           PlaceBefore(runs[c].out[k].src, runs[c].out[l].src)

\* A later chunk completed before an earlier one, the output holds records
\* of both, and two records of one chunk.
C1_Witness ==
  \E c \in Calls :
    /\ ChunkedDone(c)
    /\ \E k \in 1..Len(runs[c].out) : \E l \in 1..Len(runs[c].out) :
         /\ runs[c].out[k].src[1] < runs[c].out[l].src[1]
         /\ tasks[c][runs[c].out[k].src[1]].rank > tasks[c][runs[c].out[l].src[1]].rank
    /\ \E k \in 1..Len(runs[c].out) : \E l \in 1..Len(runs[c].out) :
         /\ runs[c].out[k].src[1] = runs[c].out[l].src[1]
         /\ runs[c].out[k].src[2] < runs[c].out[l].src[2]

\* The tasks that are inside "async with self._semaphore".
Holders == {ci \in Calls \X (1..MaxParts) : tasks[ci[1]][ci[2]].pc \in Holding}

\* C2: at every moment of a run, the number of chunk or batch tasks that
\* hold the concurrency limiter is at most the configured concurrency
\* limit, however many chunks were dispatched; the limiter never hands out
\* more permits than it has.
C2_HoldersBounded ==
  /\ Cardinality(Holders) <= MaxConcurrency
  /\ sem.free >= 0
  /\ sem.free + Cardinality(Holders) = MaxConcurrency

\* Every permit is held and a further chunk task waits for one.
C2_Witness ==
  /\ Cardinality(Holders) = MaxConcurrency
  /\ sem.waiters # << >>
  /\ \E c \in Calls : runs[c].parts > MaxConcurrency /\ runs[c].pc = "tasks"

\* C3: with a credential configured, parse and parse_images never raise to
\* the caller, whatever the completion service does (errors, unparseable
\* text, records with a null or missing answer or question): the call
\* returns a list on the single-chunk, the chunked and the image path.
C3_NeverRaises == \A c \in Calls : runs[c].pc # "raised"

\* The record at position p of the result of chunk i passes the merge of
\* call c: its hash is not empty, no record of an earlier place of a
\* returned chunk has its hash, and it is no standalone answer entry.
PassesMerge(c, i, p) ==
  /\ HashOf(tasks[c][i].result[p]) # << >>
  /\ ~IsDroppedEntry(tasks[c][i].result[p])
  /\ \A j \in 1..runs[c].parts :
       tasks[c][j].pc = "returned" =>
         \A q \in 1..Len(tasks[c][j].result) :
           PlaceBefore(<<j, q>>, <<i, p>>) =>
             HashOf(tasks[c][j].result[q]) # HashOf(tasks[c][i].result[p])

\* C4: in a chunked run, a chunk whose task failed (every tier and prompt
\* exhausted, or the task raised) contributes no record, the records of
\* every other chunk are still returned (those that pass the merge), and
\* the run itself returns: a failing task aborts neither the run nor a
\* sibling task.
C4_FailedChunkIsEmpty ==
  \A c \in Calls :
    /\ runs[c].long => runs[c].pc # "raised"
    /\ ChunkedDone(c) =>
         \A i \in 1..runs[c].parts :
           /\ tasks[c][i].pc = "raised" =>
                \A k \in 1..Len(runs[c].out) : runs[c].out[k].src[1] # i
           /\ tasks[c][i].pc = "returned" =>
                \A p \in 1..Len(tasks[c][i].result) :
                  PassesMerge(c, i, p) =>
                    \E k \in 1..Len(runs[c].out) : runs[c].out[k].src = <<i, p>>

\* One chunk task raised, one ran out of tiers and prompts and returned
\* nothing, and the records of a third chunk are in the output.
C4_Witness ==
  \E c \in Calls :
    /\ ChunkedDone(c)
    /\ \E i \in 1..runs[c].parts : tasks[c][i].pc = "raised"
    /\ \E i \in 1..runs[c].parts :
         /\ tasks[c][i].pc = "returned"
         /\ tasks[c][i].result = << >>
         /\ <<c, i>> \in faulty
    /\ runs[c].out # << >>

\* C5: during a chunked run no entry is written to the answer pool while a
\* chunk task of that run is still in flight: every step that changes the
\* pool leaves all chunk tasks of the run completed.
C5_PoolWrittenAfterTasks ==
  [][\A c \in Calls :
       (runs[c].long /\ runs[c].pc = "tasks" /\ answerPool' # answerPool)
         => \A i \in 1..runs[c].parts : tasks'[c][i].pc \in Terminal]_vars

\* C6: when two calls overlap on the same parser object, the pool entries
\* collected by one call are never read by the other: the backfill of a
\* call reads only entries that the call itself wrote.
C6_PoolPrivateToCall ==
  \A c \in Calls : runs[c].pc = "done" => runs[c].lent \subseteq {c}

\* C7: the output of every parse run, also of a text that fits a single
\* chunk, has passed deduplication and reconciliation: no two records with
\* the same content hash, no standalone answer-key record, and no
\* answerless record whose number is in the pool.
C7_OutputReconciled ==
  \A c \in Calls :
    (runs[c].kind = "text" /\ runs[c].pc = "done") =>
      /\ \A k \in 1..Len(runs[c].out) : \A l \in (k + 1)..Len(runs[c].out) :
           HashOf(runs[c].out[k].rec) # HashOf(runs[c].out[l].rec)
      /\ \A k \in 1..Len(runs[c].out) :
           /\ ~IsDroppedEntry(runs[c].out[k].rec)
           /\ ~NeedsBackfill(runs[c].out[k].rec, answerPool)

\* A batch of parse_images whose service call has been started: its task
\* waits for the semaphore, is inside "async with", or has finished.
Dispatched(c, b) == tasks[c][b].pc \in Suspended \cup Terminal

\* C18: the batches of parse_images run in parallel up to the concurrency
\* limit: while an earlier batch's call has not returned and a permit of
\* the semaphore is free, the call of the next batch is already started.
C18_BatchesInParallel ==
  \A c \in Calls :
    (/\ runs[c].kind = "images"
     /\ runs[c].pc = "batches"
     /\ runs[c].batch < runs[c].parts
     /\ tasks[c][runs[c].batch].pc \in Holding
     /\ sem.free > 0)
      => Dispatched(c, runs[c].batch + 1)

\* The chunks or batches of the run c that completed: their task returned.
Completed(c) == {i \in 1..runs[c].parts : tasks[c][i].pc = "returned"}

\* The invocations p of the callback report count completed units: each
\* one more than the one before, none above its total, and the last one
\* its total when every unit completed.
ReportsProgress(p, count, units) ==
  /\ Len(p) = count
  /\ \A k \in 1..(Len(p) - 1) : p[k][1] < p[k + 1][1]
  /\ \A k \in 1..Len(p) : p[k][1] <= p[k][2]
  /\ count = units => (Len(p) >= 1 /\ p[Len(p)][1] = p[Len(p)][2])

\* C19: a supplied progress callback is invoked once after each chunk or
\* batch completes, with completed units strictly increasing, never above
\* the total and equal to the total on the last invocation when every unit
\* completed, in every run with at least one unit, a text of a single
\* chunk included.
C19_ProgressReported ==
  \A c \in Calls :
    (runs[c].pc = "done" /\ runs[c].parts >= 1) =>
      ReportsProgress(runs[c].progress, Cardinality(Completed(c)), runs[c].parts)

\* C20: every record in the output of parse and parse_images has an
\* answer that is a string and solution_steps that is a list, neither
\* missing nor null, whichever recovery step produced the record.
C20_RecordsDefaulted ==
  \A c \in Calls :
    runs[c].pc = "done" =>
      \A k \in 1..Len(runs[c].out) :
        /\ Get(runs[c].out[k].rec, KeyAnswer, JNull).t = "str"
        /\ Get(runs[c].out[k].rec, KeySteps, JNull).t = "list"

\* C23: with no credential configured and non-empty input, parse and
\* parse_images raise the configuration error before any chunking, before
\* any service invocation and before the answer pool is reset: no task is
\* ever started, no call is made, and the pool and the semaphore stay as
\* they were.
C23_RefusedBeforeAnyWork ==
  /\ [](~client =>
         /\ \A c \in Calls : runs[c].pc \in {"off", "new", "refused"}
         /\ \A c \in Calls : \A i \in 1..MaxParts : tasks[c][i] = NoTask
         /\ answerPool = EmptyPool
         /\ sem = [free |-> MaxConcurrency, waiters |-> << >>])
  /\ [][\A c \in Calls :
          (~client /\ runs'[c] # runs[c]) =>
            /\ runs'[c] = [runs[c] EXCEPT !.pc = "refused"]
            /\ UNCHANGED <<tasks, sem, answerPool, poolBy, faults, limited>>]_vars

C23_Witness ==
  /\ ~client
  /\ runs[1].pc = "refused"
  /\ runs[1].kind = "images"

\* ------------------------------------------------------------------------
\* Claims about the tiers and the retries
\* ------------------------------------------------------------------------

\* In this step the service answered the awaited call of task i of call c
\* with a text that holds a non-empty list of records.
GotList(c, i) ==
  /\ tasks[c][i].pc = "call"
  /\ tasks'[c][i] # tasks[c][i]
  /\ faults' = faults
  /\ limited' = limited

\* In this step task i of call c starts a service invocation.
Invokes(c, i) == tasks'[c][i].pc = "call" /\ tasks'[c][i] # tasks[c][i]

\* C13: one _call_gemini invocation tries the tiers strictly in the order
\* schema-constrained, JSON-mode, plain text; a tier is invoked only when
\* every earlier tier yielded no non-empty record list, and the records
\* returned are those of the first tier that yielded a non-empty list.
C13_TiersInOrder ==
  [][\A c \in Calls : \A i \in 1..MaxParts :
       runs[c].kind = "text" =>
         /\ GotList(c, i) =>
              /\ tasks'[c][i].pc \in {"returned", "sleep"}
              /\ tasks'[c][i].pc = "returned" =>
                   \E raw \in Replies :
                     Usable(raw) /\ tasks'[c][i].result = Extracted[raw]
         /\ Invokes(c, i) =>
              \/ /\ tasks'[c][i].tier = 1
                 /\ tasks'[c][i].attempt = 0
                 /\ \/ tasks[c][i].pc \in {"none", "wait", "sleep"}
                    \/ /\ tasks[c][i].tier = NumTiers
                       /\ tasks'[c][i].prompt = tasks[c][i].prompt + 1
              \/ /\ tasks[c][i].pc \in {"call", "backoff"}
                 /\ tasks'[c][i].tier = tasks[c][i].tier + 1
                 /\ tasks'[c][i].prompt = tasks[c][i].prompt
                 /\ tasks'[c][i].attempt = 0
              \/ /\ tasks[c][i].pc = "backoff"
                 /\ tasks'[c][i].tier = tasks[c][i].tier
                 /\ tasks'[c][i].prompt = tasks[c][i].prompt
                 /\ tasks'[c][i].attempt = tasks[c][i].attempt + 1]_vars

\* The first two tiers of the first prompt yielded nothing and the task
\* returned the list of the third.
C13_Witness ==
  /\ tasks[1][1].pc = "returned"
  /\ tasks[1][1].result # << >>
  /\ faults = 2
  /\ limited = MaxLadderRateLimits

\* C14: within one tier a call that fails with a rate-limit signal is
\* retried, up to 3 retries after the first call, and every wait (10 s,
\* 20 s, 30 s) is followed by a retry in the same tier.
C14_EveryWaitRetries ==
  [][\A c \in Calls : \A i \in 1..MaxParts :
       (tasks[c][i].pc = "backoff" /\ tasks'[c][i] # tasks[c][i]) =>
         /\ tasks'[c][i].pc = "call"
         /\ tasks'[c][i].tier = tasks[c][i].tier
         /\ tasks'[c][i].prompt = tasks[c][i].prompt
         /\ tasks'[c][i].attempt = tasks[c][i].attempt + 1]_vars

\* C15: when a call in a tier fails with an error that is no rate-limit
\* signal, the tier makes no further call, the next tier is tried (behind
\* the last tier the next prompt, behind the last prompt the task returns
\* no record), and the error is not raised to the chunk task.
C15_ErrorEndsTier ==
  [][\A c \in Calls : \A i \in 1..MaxParts :
       Fails(c, i) =>
         /\ tasks'[c][i].pc # "raised"
         /\ tasks[c][i].tier < NumTiers =>
              /\ tasks'[c][i].pc = "call"
              /\ tasks'[c][i].tier = tasks[c][i].tier + 1
              /\ tasks'[c][i].prompt = tasks[c][i].prompt
              /\ tasks'[c][i].attempt = 0
         /\ (tasks[c][i].tier = NumTiers /\ tasks[c][i].prompt < NumPrompts) =>
              /\ tasks'[c][i].pc = "call"
              /\ tasks'[c][i].tier = 1
              /\ tasks'[c][i].prompt = tasks[c][i].prompt + 1
              /\ tasks'[c][i].attempt = 0
         /\ (tasks[c][i].tier = NumTiers /\ tasks[c][i].prompt = NumPrompts) =>
              /\ tasks'[c][i].pc = "returned"
              /\ tasks'[c][i].result = << >>]_vars

\* The call of the last tier of the first prompt failed with an error (no
\* text was answered, no rate limit was met) and the second prompt is
\* tried.
C15_Witness ==
  /\ tasks[1][1].pc = "call"
  /\ tasks[1][1].prompt = 2
  /\ tasks[1][1].tier = 1
  /\ tasks[1][1].last = << >>
  /\ faults = NumTiers
  /\ limited = MaxLadderRateLimits

\* C16: each service invocation is bounded by its own timeout, so also
\* when an invocation never answers the chunk task eventually completes,
\* its permit is eventually released and the run eventually returns.
C16_RunReturns ==
  <>(runs[1].pc \in {"done", "raised"} /\ sem.free = MaxConcurrency)

\* C17: after the caller cancels an in-flight run, a worker task that is
\* waiting on a service call, for the semaphore or in a sleep stops at
\* that point: from the cancellation on no task of the run is suspended
\* in a service invocation or a sleep, and none starts a further retry,
\* tier or prompt.
C17_CancelStopsTasks ==
  [][\A c \in Calls :
       /\ runs'[c].pc = "cancelled" =>
            \A i \in 1..MaxParts : tasks'[c][i].pc \notin Suspended
       /\ runs[c].pc = "cancelled" =>
            tasks'[c] = tasks[c] /\ runs'[c] = runs[c]]_vars

\* The run was cancelled while one chunk task was in a later prompt, one
\* in a retry and one still waited for the semaphore; every permit is back.
C17_Witness ==
  /\ runs[1].pc = "cancelled"
  /\ \E i \in 1..MaxParts : tasks[1][i].pc = "cancelled" /\ tasks[1][i].attempt = 1
  /\ \E i \in 1..MaxParts : tasks[1][i].pc = "cancelled" /\ tasks[1][i].prompt >= 2
  /\ \E i \in 1..MaxParts : tasks[1][i].pc = "cancelled" /\ tasks[1][i].prompt = 0
  /\ sem = [free |-> MaxConcurrency, waiters |-> << >>]

\* ------------------------------------------------------------------------
\* Claims about the deduplication
\* ------------------------------------------------------------------------

\* No earlier record of the input has the content hash of record i.
DupFirstOfHash(i) ==
  \A j \in 1..(i - 1) : HashOf(dupIn[j]) # HashOf(dupIn[i])

\* Record i of the input is in the output.
DupKept(i) == \E k \in 1..Len(dupOut) : dupOut[k].src = <<1, i>>

\* The output holds records of the input, unchanged and in input order.
DupOrderKept ==
  /\ \A k \in 1..Len(dupOut) :
       /\ dupOut[k].src[2] \in 1..Len(dupIn)
       /\ dupOut[k].rec = dupIn[dupOut[k].src[2]]
  /\ \A k \in 1..Len(dupOut) : \A l \in (k + 1)..Len(dupOut) :
       dupOut[k].src[2] < dupOut[l].src[2]

\* C11 as stated: the merge-step deduplication keeps, for each content
\* hash, exactly the first record in input order, keeps the surviving
\* records in their input order, and applied again to its own output
\* changes nothing.
C11_FirstOfEveryHash ==
  dupPc = "twice" =>
    /\ \A i \in 1..Len(dupIn) : DupKept(i) <=> DupFirstOfHash(i)
    /\ DupOrderKept
    /\ dupTwice = dupOut

\* C11 amended: the deduplication keeps, for each non-empty content hash,
\* exactly the first record in input order, and drops every record whose
\* hash is empty (question missing, empty or whitespace only); it keeps the
\* surviving records in input order and is idempotent.
C11_FirstOfNonEmptyHash ==
  dupPc = "twice" =>
    /\ \A i \in 1..Len(dupIn) :
         DupKept(i) <=> (HashOf(dupIn[i]) # << >> /\ DupFirstOfHash(i))
    /\ DupOrderKept
    /\ dupTwice = dupOut

\* Two different records with one hash, of which the first survived, next
\* to a record of another hash and a record without a hash.
C11_Witness ==
  /\ dupPc = "twice"
  /\ Len(dupOut) >= 2
  /\ \E i \in 1..Len(dupIn) : \E j \in (i + 1)..Len(dupIn) :
       /\ HashOf(dupIn[i]) = HashOf(dupIn[j])
       /\ dupIn[i] # dupIn[j]
       /\ DupKept(i)
       /\ ~DupKept(j)

\* ------------------------------------------------------------------------
\* Claims about the chunking
\* ------------------------------------------------------------------------

\* The chunks of chunk_list are slices of text that follow each other from
\* index pos on, and what lies before, between and behind them is white
\* space only.
RECURSIVE CoversFrom(_, _, _)
CoversFrom(text, pos, chunk_list) ==
  IF chunk_list = << >> THEN \A k \in pos..Len(text) : IsSpace(text[k])
  ELSE \E a \in pos..(Len(text) + 1) :
         /\ \A k \in pos..(a - 1) : IsSpace(text[k])
         /\ HasLiteralAt(text, a, Head(chunk_list))
         /\ CoversFrom(text, a + Len(Head(chunk_list)), Tail(chunk_list))

\* C12: for every non-empty text and every max_chunk_size >= 1,
\* _smart_chunk returns at least one chunk, every chunk is a non-empty
\* slice of the text, the slices follow each other in document order, and
\* every character that is no white space lies in a chunk, with boundary
\* markers and on the size-based fallback.
C12_ChunksCoverText ==
  chunkPc = "done" =>
    /\ Len(chunks) >= 1
    /\ \A k \in 1..Len(chunks) : chunks[k] # << >>
    /\ CoversFrom(chunkText, 1, chunks)

\* Boundary markers were found, the text was cut into several chunks, and
\* the white space before the first marker was left out.
C12_Witness ==
  /\ chunkPc = "done"
  /\ Len(SplitsFrom(chunkText, 1)) >= 2
  /\ Len(chunks) >= 2
  /\ Joined(chunks) # chunkText

\* C24: every chunk returned by _smart_chunk has at most max_chunk_size
\* characters, for every text, whatever the lengths of the preamble and of
\* the segments between consecutive boundary markers.
C24_ChunksBounded ==
  chunkPc = "done" => \A k \in 1..Len(chunks) : Len(chunks[k]) <= chunkSize

\* ------------------------------------------------------------------------
\* Claims about the recovery ladder
\* ------------------------------------------------------------------------

\* The raw text is the array of pair p without its closing bracket, cut
\* inside the second object: one complete object, then a partial one.
IsTruncatedPair(text, p) ==
  \E n \in 1..(Len(p.second) - 1) :
    text = <<"[">> \o p.first \o <<",">> \o SubSeq(p.second, 1, n)

\* The record holds every field of the object written as objText.
SameFields(rec, objText) ==
  LET Holds(obj) == \A i \in 1..Len(obj.v) : Get(rec, obj.v[i].k, JNull) = obj.v[i].val
  IN  rec.t = "obj" /\ Holds(JsonLoads(objText).val)

\* C8: for every raw text that is an array missing its closing bracket and
\* holding one complete object followed by a partial one, _extract_json
\* returns exactly the complete object (texts without any "]" and texts
\* whose last "]" lies inside the complete object included).
C8_TruncatedArrayRecovered ==
  recvPc = "done" =>
    \A p \in ArrayPairs :
      IsTruncatedPair(rawText, p) =>
        Len(recovered) = 1 /\ SameFields(recovered[1], p.first)

\* ------------------------------------------------------------------------
\* Claims about the repair of backslashes
\* ------------------------------------------------------------------------

\* The list holding the one record of RepairArray as the repaired text
\* decodes it: the run read as one backslash before the letter.
RepairedRecords(letter) ==
  <<JObj(<<Member(KeyQuestion, JStr(<<"x", "\\", letter, "y">>))>>)>>

\* No run of 3 or more backslashes is left in s.
NoLongRun(s) == \A k \in 1..Len(s) : RunBefore(s, 1, k + 1, "\\") <= 2

\* json.loads(s) raises, or returns something else than a list.
NoDirectParse(s) == ~(JsonLoads(s).ok /\ JsonLoads(s).val.t = "list")

\* The wrappings whose text is an array with nothing around it but
\* whitespace.
PlainWrappings == {w \in Wrappings : w.name \in {"bare", "padded"}}

\* C21: _extract_json replaces every run of 3 or more backslashes by 2, no
\* such run remains, and a text whose only defect is such a run before a
\* letter parses to its records although the unrepaired text does not.
C21_LongRunsRepaired ==
  recvPc = "done" =>
    \A w \in PlainWrappings, n \in 3..MaxBackslashes, letter \in RepairLetters :
      rawText = RepairText(w, n, letter) =>
        /\ FixBackslashes(Strip(rawText)) = RepairArray(2, letter)
        /\ NoLongRun(FixBackslashes(Strip(rawText)))
        /\ recovered = RepairedRecords(letter)
        /\ NoDirectParse(Strip(rawText))

\* C21 as it holds: the repair and the result are as stated for every
\* run of 3 or more; the unrepaired text fails to parse exactly when the
\* run is odd and the letter after it is no JSON escape letter.
C21_LongRunsRepairedWhereNeeded ==
  recvPc = "done" =>
    \A w \in PlainWrappings, n \in 3..MaxBackslashes, letter \in RepairLetters :
      rawText = RepairText(w, n, letter) =>
        /\ FixBackslashes(Strip(rawText)) = RepairArray(2, letter)
        /\ NoLongRun(FixBackslashes(Strip(rawText)))
        /\ recovered = RepairedRecords(letter)
        /\ NoDirectParse(Strip(rawText)) <=> (n % 2 = 1 /\ letter \notin JsonEscapeLetters)

C21_Witness ==
  /\ recvPc = "done"
  /\ rawText = RepairText(CHOOSE w \in Wrappings : w.name = "bare", 3, "s")
  /\ NoDirectParse(Strip(rawText))
  /\ recovered = RepairedRecords("s")

\* C25: when the trimmed raw text is itself a valid JSON array,
\* _extract_json returns exactly the strict parse of that text: no repair
\* comes before the direct parse, so strings holding 4 or more backslashes
\* in a row come back unchanged.
C25_ValidArrayUntouched ==
  recvPc = "done" =>
    (~NoDirectParse(Strip(rawText)) => recovered = JsonLoads(Strip(rawText)).val.v)

\* ------------------------------------------------------------------------
\* Claims about the purity of the recovery
\* ------------------------------------------------------------------------

Waiters == {ci \in Calls \X (1..MaxParts) : tasks[ci[1]][ci[2]].pc = "wait"}

\* Every permit is free or held by a task inside the "async with", and
\* the queue holds the waiting tasks, which wait only while no permit is
\* free.
PermitsConserved ==
  /\ sem.free + Cardinality(Holders) = MaxConcurrency
  /\ {sem.waiters[k] : k \in 1..Len(sem.waiters)} = Waiters
  /\ Len(sem.waiters) = Cardinality(Waiters)
  /\ sem.waiters # << >> => sem.free = 0

\* No task of any run is waiting for a permit or holding one.
AllEnded == Holders = {} /\ Waiters = {}

\* Some task awaits an answer of the service.
CallPending == \E c \in Calls : \E i \in 1..MaxParts : tasks[c][i].pc = "call"

\* C29: every chunk task releases its limiter permit when it ends, by
\* return, by exception or by cancellation: once all tasks have ended all
\* permits are free again, also after a run that shared the parser with
\* another, and a task waiting for a permit eventually gets one provided
\* the tasks holding permits end (the sleeps of the holders end by
\* themselves, their calls end if the service answers them).
C29_PermitsReleased ==
  /\ []PermitsConserved
  /\ [](AllEnded => sem.free = MaxConcurrency /\ sem.waiters = << >>)
  /\ <>[](~CallPending) => <>[](Waiters = {})

\* One run was cancelled while its tasks were suspended, the other had a
\* task that raised, a task that returned and a third task that had to
\* wait for a permit, and every permit is free again.
C29_Witness ==
  /\ runs[2].pc = "cancelled"
  /\ \E i \in 1..MaxParts : tasks[2][i].pc = "cancelled"
  /\ runs[1].parts > MaxConcurrency
  /\ tasks[1][runs[1].parts].pc = "returned"
  /\ \E i \in 1..MaxParts : tasks[1][i].pc = "raised"
  /\ AllEnded
  /\ sem.free = MaxConcurrency

\* ------------------------------------------------------------------------
\* Claims about the number of service invocations
\* ------------------------------------------------------------------------

\* The place of the invocation a task stands at among the invocations of
\* the prompts, the tiers of a prompt and the attempts of a tier, in the
\* order the loops of _parse_single, _call_gemini and _try_with_retry
\* visit them.
Place(t) == ((t.prompt - 1) * NumTiers + (t.tier - 1)) * RetryAttempts + t.attempt + 1

\* The places of the first attempts of the tiers of the first prompt.
TierPlaces == {(k - 1) * RetryAttempts + 1 : k \in 1..NumTiers}

\* C28: one text chunk causes at most 27 service invocations (3 prompts,
\* each through 3 tiers of at most 3 attempts) and one image batch at most
\* 3, whatever the service produces: every invocation of a task has a
\* place in 1..27 (for a batch of images one of the 3 first attempts of a
\* tier), the first invocation has place 1, and every later one a higher
\* place than the one before it.
C28_InvocationsBounded ==
  [][\A c \in Calls : \A i \in 1..MaxParts :
       Invokes(c, i) =>
         /\ tasks'[c][i].prompt \in 1..NumPrompts
         /\ tasks'[c][i].tier \in 1..NumTiers
         /\ tasks'[c][i].attempt \in 0..(RetryAttempts - 1)
         /\ Place(tasks'[c][i]) \in 1..27
         /\ runs[c].kind = "images" =>
              Place(tasks'[c][i]) \in TierPlaces /\ Cardinality(TierPlaces) = 3
         /\ IF tasks[c][i].pc \in Holding
            THEN Place(tasks'[c][i]) > Place(tasks[c][i])
            ELSE Place(tasks'[c][i]) = 1]_vars

\* The task of a text chunk stands at its 27th invocation after 18
\* rate-limit errors and 8 other failures: it made every invocation
\* before it.
C28_Witness ==
  /\ runs[1].kind = "text"
  /\ tasks[1][1].pc = "call"
  /\ Place(tasks[1][1]) = 27
  /\ limited = 0
  /\ faults = NumPrompts * NumTiers - 1

\* ------------------------------------------------------------------------
\* Claims about the order in which the chunk tasks complete
\* ------------------------------------------------------------------------

\* The pool after _collect_answers on the results of the chunks idx, one
\* after the other.
RECURSIVE PoolInOrder(_, _, _)
PoolInOrder(pool, ts, idx) ==
  IF idx = << >> THEN pool
  ELSE PoolInOrder(CollectAnswers(pool, ts[Head(idx)].result).pool, ts, Tail(idx))

\* What the results of the chunk tasks ts make when their answers are
\* collected in the order of the chunk indices.
OutInIndexOrder(ts, n) ==
  MatchAnswersFromPool(PoolInOrder(EmptyPool, ts, SortedResults(ts, n)),
                       MergeUnique(Concat(ts, SortedResults(ts, n))).items).out

\* C27: for fixed per-chunk results, the whole output of a chunked run,
\* every backfilled answer included, is the same for every completion
\* order of the chunk tasks, also when two chunks yield different answers
\* for the same question number: it is what the results make when they
\* are taken in the order of the chunk indices.
C27_OutputIgnoresCompletionOrder ==
  \A c \in Calls :
    ChunkedDone(c) => runs[c].out = OutInIndexOrder(tasks[c], runs[c].parts)

====
